---- MODULE Spec2Model ----
(***************************************************************************)
(* Model of the export engine of Portable-spreadsheet-generator:           *)
(* portable_spreadsheet/serialization.py (class Serialization, the eight   *)
(* encoders) and spreadsheet.py (class Spreadsheet, its two exporters).    *)
(*                                                                         *)
(* Python strings are sequences of one-character strings, Python indices   *)
(* are 0-based (At, SliceFrom translate them), an Optional is a record     *)
(* [some, v].  One encoder call is one action: it computes the ordered     *)
(* log of what the call did (warnings, cell fetches, label reads, workbook *)
(* open/close), the artifact it returned and the exception it ended with.  *)
(***************************************************************************)
EXTENDS Integers, Sequences, FiniteSets, TLC

VARIABLES
    shape,           \* Serialization.shape: <<rows, cols>> of the exported grid
    export_offset,   \* Serialization.export_offset: <<rows skipped, cols skipped>>
    export_subset,   \* Serialization.export_subset
    cell_indices,    \* Serialization.cell_indices (labels, help texts, languages, ...)
    cells,           \* what _get_cell_at(row, column) returns, by exported position
    variables_dict,  \* _get_variables().variables_dict, in insertion order
    pc,              \* "idle": no call running; "returned": an encoder call has
                     \* ended; "accessed": an iloc or loc access has ended
    call,            \* the encoder called and its arguments
    log,             \* what the call did, in order
    result,          \* the artifact the call returned
    error,           \* the exception the call ended with, or "none"
    workbook         \* the xlsxwriter workbook of the call

vars == <<shape, export_offset, export_subset, cell_indices, cells,
          variables_dict, pc, call, log, result, error, workbook>>

gridVars == <<shape, export_offset, export_subset, cell_indices, cells,
              variables_dict>>

----------------------------------------------------------------------------
(* Bounds of the model. *)

MaxRows == 2

MaxCols == 2

MaxOffset == 1

----------------------------------------------------------------------------
(* Python values. *)

\* typing.Optional: None, or a value
None == [some |-> FALSE, v |-> <<>>]

Some(x) == [some |-> TRUE, v |-> x]

\* a cell value: None, a number, or an object that is no number (a string)
NoneValue == [k |-> "none", n |-> 0, s |-> <<>>]

Num(n) == [k |-> "num", n |-> n, s |-> <<>>]

Str(s) == [k |-> "str", n |-> 0, s |-> s]

\* an entry of a numpy float array
NaN == [k |-> "nan", n |-> 0, s |-> <<>>]

Float(n) == [k |-> "float", n |-> n, s |-> <<>>]

DigitChars == <<"0", "1", "2", "3", "4", "5", "6", "7", "8", "9">>

Digit(d) == DigitChars[d + 1]

\* str(n) of a non-negative int
RECURSIVE IntToStr(_)
IntToStr(n) ==
    IF n < 10 THEN <<Digit(n)>>
    ELSE IntToStr(n \div 10) \o <<Digit(n % 10)>>

\* str(value)
PyStr(value) ==
    CASE value.k = "none" -> <<"N", "o", "n", "e">>
      [] value.k = "num" -> IntToStr(value.n)
      [] value.k = "nan" -> <<"n", "a", "n">>
      [] value.k = "float" -> IntToStr(value.n) \o <<".", "0">>
      [] OTHER -> value.s

\* isinstance(value, Number)
IsNumber(value) == value.k = "num"

\* seq[i] with a 0-based index i >= 0; InRange is false where Python
\* raises IndexError
InRange(seq, i) == i >= 0 /\ i < Len(seq)

At(seq, i) == seq[i + 1]

\* seq[n:] with n >= 0
SliceFrom(seq, n) == SubSeq(seq, n + 1, Len(seq))

\* seq[-n:] with n > 0
SliceLast(seq, n) ==
    IF Len(seq) <= n THEN seq ELSE SubSeq(seq, Len(seq) - n + 1, Len(seq))

\* needle in haystack, for strings
Contains(haystack, needle) ==
    \E k \in 0..(Len(haystack) - Len(needle)) :
        SubSeq(haystack, k + 1, k + Len(needle)) = needle

\* text.replace(' ', replacement)
RECURSIVE ReplaceSpaces(_, _)
ReplaceSpaces(text, replacement) ==
    IF text = <<>> THEN <<>>
    ELSE (IF Head(text) = " " THEN replacement ELSE <<Head(text)>>)
         \o ReplaceSpaces(Tail(text), replacement)

----------------------------------------------------------------------------
(* The grids the encoders are run on. *)

Rows == shape[1]

Cols == shape[2]

\* the positions of the exported grid
Positions == (0..(Rows - 1)) \X (0..(Cols - 1))

Languages == <<"native", "excel">>

\* Cell.parse and Cell.constructing_words.words: one text per language
ParseText(languages, row, col) ==
    [l \in {At(languages, k) : k \in 0..(Len(languages) - 1)} |->
        <<"=", l, Digit(row), Digit(col)>>]

\* the values of the exported cells, by content pattern
CellValue(pattern, row, col) ==
    CASE pattern = "nums" -> Num(7 + 2 * row + col)
      [] pattern = "hole" ->
            IF row = 0 /\ col = 1 THEN NoneValue ELSE Num(7 + 2 * row + col)
      [] pattern = "text" ->
            IF row = col THEN Str(<<"a", ",", "b">>)
            ELSE IF row = 1 THEN NoneValue
            ELSE Num(7 + 2 * row + col)
      [] OTHER -> NoneValue

Patterns == {"nums", "hole", "text", "none"}

Cell(pattern, languages, row, col) ==
    [value |-> CellValue(pattern, row, col),
     cell_type |-> IF row = col THEN "value_only" ELSE "computational",
     parse |-> ParseText(languages, row, col),
     words |-> ParseText(languages, row, col),
     description |-> IF row = 0 THEN Some(<<"d", Digit(row), Digit(col)>>)
                     ELSE None,
     excel_format |-> IF col = 0 THEN {"bold"} ELSE {}]

RowLabel(dup, k) == <<"r", " ", Digit(IF dup THEN 0 ELSE k)>>

ColLabel(dup, k) == <<"c", " ", Digit(IF dup THEN 0 ELSE k)>>

\* the CellIndices objects: the row and column arrays have one entry per
\* row and column of the whole sheet (offset + exported + rows after)
CellIndices(n_rows, n_cols, v) ==
    [rows_labels |-> [k \in 1..n_rows |-> RowLabel(v.dup, k - 1)],
     columns_labels |-> [k \in 1..n_cols |-> ColLabel(v.dup, k - 1)],
     rows_help_text |->
        IF v.help_rows THEN Some([k \in 1..n_rows |-> <<"h", "r", Digit(k - 1)>>])
        ELSE None,
     columns_help_text |->
        IF v.help_columns THEN Some([k \in 1..n_cols |-> <<"h", "c", Digit(k - 1)>>])
        ELSE None,
     rows_nicknames |-> [k \in 1..n_rows |-> <<"n", "r", Digit(k - 1)>>],
     columns_nicknames |-> [k \in 1..n_cols |-> <<"n", "c", Digit(k - 1)>>],
     languages |-> v.languages,
     excel_append_labels |-> v.append]

\* the kinds of sheet the encoders are run on
IndexVariants ==
    { [after |-> 0, help_rows |-> FALSE, help_columns |-> FALSE,
       dup |-> FALSE, append |-> FALSE, languages |-> Languages,
       variables |-> FALSE],
      [after |-> 1, help_rows |-> TRUE, help_columns |-> TRUE,
       dup |-> FALSE, append |-> TRUE, languages |-> Languages,
       variables |-> TRUE],
      [after |-> 0, help_rows |-> TRUE, help_columns |-> FALSE,
       dup |-> TRUE, append |-> TRUE, languages |-> <<"native">>,
       variables |-> TRUE],
      [after |-> 0, help_rows |-> FALSE, help_columns |-> TRUE,
       dup |-> FALSE, append |-> FALSE, languages |-> Languages,
       variables |-> TRUE] }

Variables ==
    << [name |-> <<"v", "a">>, value |-> Num(3), description |-> <<"d", "a">>],
       [name |-> <<"v", "b">>, value |-> Num(4), description |-> <<"d", "b">>] >>

NoResult == [kind |-> "none"]

NoCall == [encoder |-> "none"]

NoWorkbook ==
    [opened |-> FALSE, closed |-> FALSE, sheets |-> <<>>, names |-> <<>>,
     writes |-> <<>>]

Init ==
    /\ \E rows \in 0..MaxRows, cols \in 0..MaxCols,
          off_r \in 0..MaxOffset, off_c \in 0..MaxOffset,
          v \in IndexVariants, pattern \in Patterns :
        /\ shape = <<rows, cols>>
        /\ export_offset = <<off_r, off_c>>
        /\ cell_indices =
              CellIndices(off_r + rows + v.after, off_c + cols + v.after, v)
        /\ cells = [p \in (0..(rows - 1)) \X (0..(cols - 1)) |->
                       Cell(pattern, v.languages, p[1], p[2])]
        /\ variables_dict = IF v.variables THEN Variables ELSE <<>>
    /\ export_subset \in BOOLEAN
    /\ pc = "idle"
    /\ call = NoCall
    /\ log = <<>>
    /\ result = NoResult
    /\ error = "none"
    /\ workbook = NoWorkbook

----------------------------------------------------------------------------
(* What a call does, in order. *)

Ev(e, a, i, j) == [e |-> e, a |-> a, i |-> i, j |-> j]

Warned(message) == Ev("warn", message, 0, 0)

Fetched(row, col) == Ev("fetch", "", row, col)

LabelRead(axis, index) == Ev("label", axis, index, 0)

VariablesRead == Ev("variables", "", 0, 0)

Opened == Ev("open", "", 0, 0)

Closed == Ev("close", "", 0, 0)

\* self.warning_logger(message)
warning_logger(l, message) == Append(l, Warned(message))

\* mutant: the warning is logged whatever export_subset is
log_export_subset_warning_always(l) == warning_logger(l, "subset")

\* Serialization.log_export_subset_warning_if_needed
log_export_subset_warning_if_needed(l) ==
    IF export_subset THEN warning_logger(l, "subset") ELSE l

\* self._get_cell_at(row, column); a position outside the shape has no cell
get_cell_at(row, column) == cells[<<row, column>>]

\* mutant: the call switches the subset warning off once it has run
FinishWarnedOnce(encoder, args, st) ==
    /\ pc' = "returned"
    /\ call' = [encoder |-> encoder, args |-> args]
    /\ log' = st.log
    /\ error' = st.err
    /\ result' = IF st.err = "none" THEN st.out ELSE NoResult
    /\ export_subset' = FALSE
    /\ UNCHANGED <<shape, export_offset, cell_indices, cells, variables_dict>>

\* the end of a call: what it leaves behind
Finish(encoder, args, st) ==
    /\ pc' = "returned"
    /\ call' = [encoder |-> encoder, args |-> args]
    /\ log' = st.log
    /\ error' = st.err
    /\ result' = IF st.err = "none" THEN st.out ELSE NoResult
    /\ UNCHANGED gridVars

NoArgs == [none |-> TRUE]

----------------------------------------------------------------------------
(* Serialization.to_2d_list *)

RECURSIVE List2dCols(_, _, _)
List2dCols(st, row_idx, col_idx) ==
    IF col_idx >= Cols THEN st
    ELSE List2dCols(
            [st EXCEPT !.log = Append(@, Fetched(row_idx, col_idx)),
                       !.row = Append(@, get_cell_at(row_idx, col_idx).value)],
            row_idx, col_idx + 1)

RECURSIVE List2dRows(_, _)
List2dRows(st, row_idx) ==
    IF row_idx >= Rows THEN st
    ELSE LET done == List2dCols([st EXCEPT !.row = <<>>], row_idx, 0)
         IN  List2dRows([done EXCEPT !.export = Append(@, done.row)],
                        row_idx + 1)

To2dList ==
    LET st == List2dRows(
                 [log |-> log_export_subset_warning_if_needed(<<>>),
                  export |-> <<>>, row |-> <<>>], 0)
    IN  [log |-> st.log, err |-> "none",
         out |-> [kind |-> "list", v |-> st.export]]

to_2d_list ==
    /\ pc = "idle"
    /\ Finish("to_2d_list", NoArgs, To2dList)
    /\ workbook' = NoWorkbook

----------------------------------------------------------------------------
(* Serialization.to_string_of_values *)

RECURSIVE StringCols(_, _, _)
StringCols(st, row_idx, col_idx) ==
    IF col_idx >= Cols THEN st
    ELSE StringCols(
            [st EXCEPT
                !.log = Append(@, Fetched(row_idx, col_idx)),
                !.export = @ \o PyStr(get_cell_at(row_idx, col_idx).value)
                             \o (IF col_idx < Cols - 1 THEN <<",", " ">>
                                 ELSE <<>>)],
            row_idx, col_idx + 1)

RECURSIVE StringRows(_, _)
StringRows(st, row_idx) ==
    IF row_idx >= Rows THEN st
    ELSE LET done ==
                StringCols([st EXCEPT !.export = @ \o <<"[">>], row_idx, 0)
         IN  StringRows(
                [done EXCEPT
                    !.export = @ \o <<"]">>
                                 \o (IF row_idx < Rows - 1 THEN <<",", "\n">>
                                     ELSE <<>>)],
                row_idx + 1)

ToStringOfValues ==
    LET st == StringRows(
                 [log |-> log_export_subset_warning_if_needed(<<>>),
                  export |-> <<"[">>], 0)
    IN  [log |-> st.log, err |-> "none",
         out |-> [kind |-> "text", v |-> st.export \o <<"]">>]]

to_string_of_values ==
    /\ pc = "idle"
    /\ Finish("to_string_of_values", NoArgs, ToStringOfValues)
    /\ workbook' = NoWorkbook

----------------------------------------------------------------------------
(* Serialization.to_numpy *)

\* numpy.zeros(shape)
Zeros(sh) ==
    [shape |-> sh,
     data |-> [p \in (0..(sh[1] - 1)) \X (0..(sh[2] - 1)) |-> Float(0)]]

\* results[row_idx, col_idx] = x
SetEntry(results, row_idx, col_idx, x) ==
    [results EXCEPT !.data[<<row_idx, col_idx>>] = x]

\* mutant: the notice is logged at every substitution
NumpyCellWarnsEach(st, row_idx, col_idx) ==
    LET value == get_cell_at(row_idx, col_idx).value
        st1 == [st EXCEPT !.log = Append(@, Fetched(row_idx, col_idx))]
    IN  IF value.k # "none"
        THEN IF IsNumber(value)
             THEN [st1 EXCEPT !.results =
                      SetEntry(@, row_idx, col_idx, Float(value.n))]
             ELSE [st1 EXCEPT !.results = SetEntry(@, row_idx, col_idx, NaN),
                              !.log = warning_logger(@, "coerce")]
        ELSE [st1 EXCEPT !.results = SetEntry(@, row_idx, col_idx, NaN)]

\* mutant: a None cell keeps the zero of numpy.zeros
NumpyCellSkipsNone(st, row_idx, col_idx) ==
    LET value == get_cell_at(row_idx, col_idx).value
        st1 == [st EXCEPT !.log = Append(@, Fetched(row_idx, col_idx))]
    IN  IF value.k # "none"
        THEN IF IsNumber(value)
             THEN [st1 EXCEPT !.results =
                      SetEntry(@, row_idx, col_idx, Float(value.n))]
             ELSE [st1 EXCEPT !.results = SetEntry(@, row_idx, col_idx, NaN),
                              !.contains_nonumeric_values = TRUE]
        ELSE st1

\* the body of the inner loop: one cell
NumpyCell(st, row_idx, col_idx) ==
    LET value == get_cell_at(row_idx, col_idx).value
        st1 == [st EXCEPT !.log = Append(@, Fetched(row_idx, col_idx))]
    IN  IF value.k # "none"
        THEN IF IsNumber(value)
             THEN [st1 EXCEPT !.results =
                      SetEntry(@, row_idx, col_idx, Float(value.n))]
             ELSE [st1 EXCEPT !.results = SetEntry(@, row_idx, col_idx, NaN),
                              !.contains_nonumeric_values = TRUE]
        ELSE [st1 EXCEPT !.results = SetEntry(@, row_idx, col_idx, NaN)]

RECURSIVE NumpyCols(_, _, _)
NumpyCols(st, row_idx, col_idx) ==
    IF col_idx >= Cols THEN st
    ELSE NumpyCols(NumpyCell(st, row_idx, col_idx), row_idx, col_idx + 1)

RECURSIVE NumpyRows(_, _)
NumpyRows(st, row_idx) ==
    IF row_idx >= Rows THEN st
    ELSE NumpyRows(NumpyCols(st, row_idx, 0), row_idx + 1)

ToNumpy ==
    LET st == NumpyRows(
                 [log |-> log_export_subset_warning_if_needed(<<>>),
                  results |-> Zeros(shape),
                  contains_nonumeric_values |-> FALSE], 0)
    IN  [log |-> IF st.contains_nonumeric_values
                 THEN warning_logger(st.log, "coerce") ELSE st.log,
         err |-> "none",
         out |-> [kind |-> "matrix", v |-> st.results]]

to_numpy ==
    /\ pc = "idle"
    /\ Finish("to_numpy", NoArgs, ToNumpy)
    /\ workbook' = NoWorkbook

----------------------------------------------------------------------------
(* Steps shared by the encoders that build a text. *)

Ok(st) == st.err = "none"

\* raise an exception: the rest of the call is skipped
Raise(st, exception) == [st EXCEPT !.err = exception]

\* export += text
Emit(st, text) == [st EXCEPT !.export = @ \o text]

Logged(st, event) == [st EXCEPT !.log = Append(@, event)]

Sheet == <<"S", "h", "e", "e", "t">>

\* value = cell.value; if value is None: value = na_rep; str(value)
ValueText(value, na_rep) == IF value.k = "none" THEN na_rep ELSE PyStr(value)

----------------------------------------------------------------------------
(* Serialization.to_csv *)

\* the label of exported column col_i, as to_csv indexes it
CsvColumnIndex(col_i) == col_i + export_offset[2]

\* mutant: the row label is read without the export offset
CsvRowIndexWithoutOffset(row_idx) == row_idx

\* the label of exported row row_idx, as to_csv indexes it
CsvRowIndex(row_idx) == row_idx + export_offset[1]

\* the separator after the corner text (line 446)
CsvCornerSep(a) == a.sep

RECURSIVE CsvLabels(_, _, _)
CsvLabels(st, a, col_i) ==
    IF col_i >= Cols \/ ~Ok(st) THEN st
    ELSE IF ~InRange(cell_indices.columns_labels, CsvColumnIndex(col_i))
    THEN Raise(st, "IndexError")
    ELSE LET col == At(cell_indices.columns_labels, CsvColumnIndex(col_i))
             st1 == Logged(st, LabelRead("columns", CsvColumnIndex(col_i)))
             st2 == Emit(st1, ReplaceSpaces(col, a.spaces_replacement))
         IN  CsvLabels(IF col_i < Cols - 1 THEN Emit(st2, a.sep) ELSE st2,
                       a, col_i + 1)

RECURSIVE CsvValues(_, _, _, _)
CsvValues(st, a, row_idx, col_idx) ==
    IF col_idx >= Cols THEN st
    ELSE LET value == get_cell_at(row_idx, col_idx).value
             st1 == Logged(st, Fetched(row_idx, col_idx))
             st2 == Emit(st1, ValueText(value, a.na_rep))
         IN  CsvValues(IF col_idx < Cols - 1 THEN Emit(st2, a.sep) ELSE st2,
                       a, row_idx, col_idx + 1)

CsvLine(st, a, row_idx) ==
    IF row_idx = -1
    THEN CsvLabels(Emit(st, a.top_right_corner_text \o CsvCornerSep(a)), a, 0)
    ELSE IF ~InRange(cell_indices.rows_labels, CsvRowIndex(row_idx))
    THEN Raise(st, "IndexError")
    ELSE LET label == At(cell_indices.rows_labels, CsvRowIndex(row_idx))
             st1 == Logged(st, LabelRead("rows", CsvRowIndex(row_idx)))
             st2 == Emit(st1, ReplaceSpaces(label, a.spaces_replacement)
                              \o a.sep)
         IN  CsvValues(st2, a, row_idx, 0)

RECURSIVE CsvLines(_, _, _)
CsvLines(st, a, row_idx) ==
    IF row_idx >= Rows \/ ~Ok(st) THEN st
    ELSE LET st1 == CsvLine(st, a, row_idx)
         IN  CsvLines(IF Ok(st1) /\ row_idx < Rows - 1
                      THEN Emit(st1, a.line_terminator) ELSE st1,
                      a, row_idx + 1)

ToCsv(a) ==
    LET st == CsvLines(
                 [log |-> log_export_subset_warning_if_needed(<<>>),
                  export |-> <<>>, err |-> "none"], a, -1)
    IN  [log |-> st.log, err |-> st.err,
         out |-> [kind |-> "text", v |-> st.export]]

CsvArgs ==
    [spaces_replacement : {<<" ">>, <<"_">>},
     top_right_corner_text : {Sheet},
     sep : {<<",">>, <<";">>},
     line_terminator : {<<"\n">>},
     na_rep : {<<>>, <<"N", "A">>}]

to_csv ==
    /\ pc = "idle"
    /\ \E a \in CsvArgs : Finish("to_csv", a, ToCsv(a))
    /\ workbook' = NoWorkbook

----------------------------------------------------------------------------
(* Serialization.to_markdown *)

RECURSIVE MdLabels(_, _, _)
MdLabels(st, a, col_i) ==
    IF col_i >= Cols \/ ~Ok(st) THEN st
    ELSE IF ~InRange(cell_indices.columns_labels, col_i + export_offset[2])
    THEN Raise(st, "IndexError")
    ELSE LET col == At(cell_indices.columns_labels, col_i + export_offset[2])
             st1 == Logged(st, LabelRead("columns", col_i + export_offset[2]))
             st2 == Emit(st1, <<"*">>
                              \o ReplaceSpaces(col, a.spaces_replacement)
                              \o <<"*">>)
         IN  MdLabels(IF col_i < Cols - 1 THEN Emit(st2, <<" | ">>)
                      ELSE Emit(st2, <<" |", "\n">>),
                      a, col_i + 1)

RECURSIVE MdSeparator(_, _)
MdSeparator(st, col_i) ==
    IF col_i >= Cols THEN st
    ELSE MdSeparator(IF col_i = Cols - 1
                     THEN Emit(st, <<"----|", "\n">>)
                     ELSE Emit(st, <<"----|">>),
                     col_i + 1)

RECURSIVE MdValues(_, _, _, _)
MdValues(st, a, row_idx, col_idx) ==
    IF col_idx >= Cols THEN st
    ELSE LET value == get_cell_at(row_idx, col_idx).value
             st1 == Logged(st, Fetched(row_idx, col_idx))
             st2 == Emit(st1, ValueText(value, a.na_rep))
         IN  MdValues(IF col_idx < Cols - 1 THEN Emit(st2, <<" | ">>)
                      ELSE Emit(st2, <<" |", "\n">>),
                      a, row_idx, col_idx + 1)

MdLine(st, a, row_idx) ==
    IF row_idx = -2
    THEN MdLabels(Emit(st, <<"| ">> \o a.top_right_corner_text \o <<" |">>),
                  a, 0)
    ELSE IF row_idx = -1
    THEN MdSeparator(Emit(st, <<"|----|">>), 0)
    ELSE IF ~InRange(cell_indices.rows_labels, row_idx + export_offset[1])
    THEN Raise(Emit(st, <<"| *">>), "IndexError")
    ELSE LET label == At(cell_indices.rows_labels, row_idx + export_offset[1])
             st1 == Logged(Emit(st, <<"| *">>),
                           LabelRead("rows", row_idx + export_offset[1]))
             st2 == Emit(st1, ReplaceSpaces(label, a.spaces_replacement)
                              \o <<"*", " | ">>)
         IN  MdValues(st2, a, row_idx, 0)

RECURSIVE MdLines(_, _, _)
MdLines(st, a, row_idx) ==
    IF row_idx >= Rows \/ ~Ok(st) THEN st
    ELSE MdLines(MdLine(st, a, row_idx), a, row_idx + 1)

ToMarkdown(a) ==
    LET st == MdLines(
                 [log |-> log_export_subset_warning_if_needed(<<>>),
                  export |-> <<>>, err |-> "none"], a, -2)
    IN  [log |-> st.log, err |-> st.err,
         out |-> [kind |-> "text", v |-> st.export]]

MarkdownArgs ==
    [spaces_replacement : {<<" ">>, <<"_">>},
     top_right_corner_text : {Sheet},
     na_rep : {<<>>, <<"N", "A">>}]

to_markdown ==
    /\ pc = "idle"
    /\ \E a \in MarkdownArgs : Finish("to_markdown", a, ToMarkdown(a))
    /\ workbook' = NoWorkbook

----------------------------------------------------------------------------
(* Serialization.to_html_table *)

\* ' title="{}"'.format(text)
TitleAttr(text) == <<" title=\"">> \o text \o <<"\"">>

\* f'<a href="javascript:;" {title_attr}>'
Anchor(title_attr) == <<"<a href=\"javascript:;\" ">> \o title_attr \o <<">">>

\* the index of the help text of exported column col_i (line 602)
HtmlColumnHelpIndex(col_i) == col_i + export_offset[2]

\* the index of the help text of exported row row_idx (line 615)
HtmlRowHelpIndex(row_idx) == row_idx + export_offset[2]

RECURSIVE HtmlLabels(_, _, _)
HtmlLabels(st, a, col_i) ==
    IF col_i >= Cols \/ ~Ok(st) THEN st
    ELSE IF ~InRange(cell_indices.columns_labels, col_i + export_offset[2])
    THEN Raise(st, "IndexError")
    ELSE IF /\ cell_indices.columns_help_text.some
            /\ ~InRange(cell_indices.columns_help_text.v,
                        HtmlColumnHelpIndex(col_i))
    THEN Raise(st, "IndexError")
    ELSE LET col == At(cell_indices.columns_labels, col_i + export_offset[2])
             title_attr ==
                IF cell_indices.columns_help_text.some
                THEN TitleAttr(At(cell_indices.columns_help_text.v,
                                  HtmlColumnHelpIndex(col_i)))
                ELSE <<>>
             st1 == Logged(st, LabelRead("columns", col_i + export_offset[2]))
         IN  HtmlLabels(
                Emit(st1, <<"<th>">> \o Anchor(title_attr)
                          \o ReplaceSpaces(col, a.spaces_replacement)
                          \o <<"</a>", "</th>">>),
                a, col_i + 1)

\* the tooltip of a data cell (lines 628-638); err is set where
\* constructing_words.words has no entry for the language
HtmlCellTitle(cell, a) ==
    IF cell.description.some
    THEN [err |-> "none", title_attr |-> TitleAttr(cell.description.v)]
    ELSE IF a.language_for_description.some
            /\ cell.cell_type = "computational"
    THEN IF a.language_for_description.v \in DOMAIN cell.words
         THEN [err |-> "none",
               title_attr |->
                  TitleAttr(cell.words[a.language_for_description.v])]
         ELSE [err |-> "KeyError", title_attr |-> <<>>]
    ELSE [err |-> "none", title_attr |-> <<>>]

RECURSIVE HtmlValues(_, _, _, _)
HtmlValues(st, a, row_idx, col_idx) ==
    IF col_idx >= Cols \/ ~Ok(st) THEN st
    ELSE LET cell_at_pos == get_cell_at(row_idx, col_idx)
             st1 == Logged(st, Fetched(row_idx, col_idx))
             title == HtmlCellTitle(cell_at_pos, a)
         IN  IF title.err # "none" THEN Raise(st1, title.err)
             ELSE HtmlValues(
                     Emit(st1, <<"<td>">> \o Anchor(title.title_attr)
                               \o ValueText(cell_at_pos.value, a.na_rep)
                               \o <<"</a>", "</td>">>),
                     a, row_idx, col_idx + 1)

HtmlLine(st, a, row_idx) ==
    IF row_idx = -1
    THEN HtmlLabels(
            Emit(st, <<"<th>">> \o a.top_right_corner_text \o <<"</th>">>),
            a, 0)
    ELSE IF /\ cell_indices.rows_help_text.some
            /\ ~InRange(cell_indices.rows_help_text.v,
                        HtmlRowHelpIndex(row_idx))
    THEN Raise(st, "IndexError")
    ELSE IF ~InRange(cell_indices.rows_labels, row_idx + export_offset[1])
    THEN Raise(st, "IndexError")
    ELSE LET title_attr ==
                IF cell_indices.rows_help_text.some
                THEN TitleAttr(At(cell_indices.rows_help_text.v,
                                  HtmlRowHelpIndex(row_idx)))
                ELSE <<>>
             label == At(cell_indices.rows_labels, row_idx + export_offset[1])
             st1 == Logged(st, LabelRead("rows", row_idx + export_offset[1]))
         IN  HtmlValues(
                Emit(st1, <<"<td>">> \o Anchor(title_attr)
                          \o ReplaceSpaces(label, a.spaces_replacement)
                          \o <<"</a>", "</td>">>),
                a, row_idx, 0)

RECURSIVE HtmlLines(_, _, _)
HtmlLines(st, a, row_idx) ==
    IF row_idx >= Rows \/ ~Ok(st) THEN st
    ELSE LET st1 == HtmlLine(Emit(st, <<"<tr>">>), a, row_idx)
         IN  HtmlLines(IF Ok(st1) THEN Emit(st1, <<"</tr>">>) ELSE st1,
                       a, row_idx + 1)

ToHtmlTable(a) ==
    LET st == HtmlLines(
                 [log |-> log_export_subset_warning_if_needed(<<>>),
                  export |-> <<"<table>">>, err |-> "none"], a, -1)
    IN  [log |-> st.log, err |-> st.err,
         out |-> [kind |-> "text", v |-> st.export \o <<"</table>">>]]

\* language_for_description = None
NoLanguage == [some |-> FALSE, v |-> ""]

HtmlArgs ==
    [spaces_replacement : {<<" ">>, <<"_">>},
     top_right_corner_text : {Sheet},
     na_rep : {<<>>, <<"N", "A">>},
     language_for_description : {NoLanguage, Some("excel")}]

to_html_table ==
    /\ pc = "idle"
    /\ \E a \in HtmlArgs : Finish("to_html_table", a, ToHtmlTable(a))
    /\ workbook' = NoWorkbook

----------------------------------------------------------------------------
(* Serialization.to_dictionary *)

\* a Python dict is a function; d[key] = value
DictSet(d, key, value) == (key :> value) @@ d

EmptyDict == <<>>

\* [label.replace(' ', spaces_replacement) for label in labels[offset:]]
AxisLabels(labels, offset, spaces_replacement) ==
    LET tail == SliceFrom(labels, offset)
    IN  [k \in 1..Len(tail) |-> ReplaceSpaces(tail[k], spaces_replacement)]

\* help_text[offset:] of an Optional help text
AxisHelpText(help_text, offset) ==
    IF help_text.some THEN Some(SliceFrom(help_text.v, offset)) ELSE None

\* A) the x axis is the columns (lines 288-311)
AxesByColumn(a) ==
    [x_range |-> Cols,
     x |-> AxisLabels(cell_indices.columns_labels, export_offset[2],
                      a.spaces_replacement),
     x_helptext |-> AxisHelpText(cell_indices.columns_help_text,
                                 export_offset[2]),
     x_start_key |-> "columns",
     y_range |-> Rows,
     y |-> AxisLabels(cell_indices.rows_labels, export_offset[1],
                      a.spaces_replacement),
     y_helptext |-> AxisHelpText(cell_indices.rows_help_text,
                                 export_offset[1]),
     y_start_key |-> "rows"]

\* B) the x axis is the rows (lines 313-336)
AxesByRow(a) ==
    [x_range |-> Rows,
     x |-> AxisLabels(cell_indices.rows_labels, export_offset[1],
                      a.spaces_replacement),
     x_helptext |-> AxisHelpText(cell_indices.rows_help_text,
                                 export_offset[1]),
     x_start_key |-> "rows",
     y_range |-> Cols,
     y |-> AxisLabels(cell_indices.columns_labels, export_offset[2],
                      a.spaces_replacement),
     y_helptext |-> AxisHelpText(cell_indices.columns_help_text,
                                 export_offset[2]),
     y_start_key |-> "columns"]

Axes(a) == IF a.by_row THEN AxesByRow(a) ELSE AxesByColumn(a)

\* the label arrays are read once in A) and once more in B)
AxesLog(l, a) ==
    LET byColumn == l \o <<LabelRead("columns", export_offset[2]),
                          LabelRead("rows", export_offset[1])>>
    IN  IF a.by_row
        THEN byColumn \o <<LabelRead("rows", export_offset[1]),
                           LabelRead("columns", export_offset[2])>>
        ELSE byColumn

\* mutant: the cell is fetched at (y, x) whatever by_row is
DictCellPositionSwapped(a, idx_x, idx_y) == <<idx_y, idx_x>>

\* mutant: the cell is fetched at (x, y) whatever by_row is
DictCellPositionUnswapped(a, idx_x, idx_y) == <<idx_x, idx_y>>

\* the cell of x index idx_x and y index idx_y (lines 344-347)
DictCellPosition(a, idx_x, idx_y) ==
    IF a.by_row THEN <<idx_x, idx_y>> ELSE <<idx_y, idx_x>>

\* for i, language in enumerate(languages):
\*     pseudolang_and_val[languages_used[i]] = parsed_cell[language]
RECURSIVE DictTexts(_, _, _, _, _)
DictTexts(texts, parsed_cell, languages, languages_used, i) ==
    IF i >= Len(languages) \/ ~Ok(texts) THEN texts
    ELSE IF At(languages, i) \notin DOMAIN parsed_cell
    THEN Raise(texts, "KeyError")
    ELSE IF ~InRange(languages_used, i) THEN Raise(texts, "IndexError")
    ELSE DictTexts(
            [texts EXCEPT !.d = DictSet(@, At(languages_used, i),
                                        parsed_cell[At(languages, i)])],
            parsed_cell, languages, languages_used, i + 1)

\* mutant: a None cell is left out whatever skip_nan_cell says
DictCellSkipsNone(st, a, ax, languages, languages_used, idx_x, idx_y) ==
    LET pos == DictCellPosition(a, idx_x, idx_y)
        cell == get_cell_at(pos[1], pos[2])
        st1 == Logged(st, Fetched(pos[1], pos[2]))
        cell_value == IF cell.value.k = "none" THEN a.nan_replacement
                      ELSE cell.value
        texts == DictTexts([d |-> EmptyDict, err |-> "none"], cell.parse,
                           languages, languages_used, 0)
        pseudolang_and_val ==
            [texts |-> texts.d, value |-> cell_value,
             description |-> cell.description, help_text |-> None]
    IN  IF pos \notin DOMAIN cells THEN Raise(st, "IndexError")
        ELSE IF cell.value.k = "none" THEN st1
        ELSE IF ~Ok(texts) THEN Raise(st1, texts.err)
        ELSE IF ~InRange(ax.y, idx_y) THEN Raise(st1, "IndexError")
        ELSE IF ax.y_helptext.some /\ ~InRange(ax.y_helptext.v, idx_y)
        THEN Raise(st1, "IndexError")
        ELSE [st1 EXCEPT !.y_values.items =
                DictSet(@, At(ax.y, idx_y),
                        IF ax.y_helptext.some
                        THEN [pseudolang_and_val EXCEPT !.help_text =
                                 Some(At(ax.y_helptext.v, idx_y))]
                        ELSE pseudolang_and_val)]

\* the body of the inner loop (lines 343-367)
DictCell(st, a, ax, languages, languages_used, idx_x, idx_y) ==
    LET pos == DictCellPosition(a, idx_x, idx_y)
        cell == get_cell_at(pos[1], pos[2])
        st1 == Logged(st, Fetched(pos[1], pos[2]))
        cell_value == IF cell.value.k = "none" THEN a.nan_replacement
                      ELSE cell.value
        texts == DictTexts([d |-> EmptyDict, err |-> "none"], cell.parse,
                           languages, languages_used, 0)
        pseudolang_and_val ==
            [texts |-> texts.d, value |-> cell_value,
             description |-> cell.description, help_text |-> None]
    IN  IF pos \notin DOMAIN cells THEN Raise(st, "IndexError")
        ELSE IF cell.value.k = "none" /\ a.skip_nan_cell THEN st1
        ELSE IF ~Ok(texts) THEN Raise(st1, texts.err)
        ELSE IF ~InRange(ax.y, idx_y) THEN Raise(st1, "IndexError")
        ELSE IF ax.y_helptext.some /\ ~InRange(ax.y_helptext.v, idx_y)
        THEN Raise(st1, "IndexError")
        ELSE [st1 EXCEPT !.y_values.items =
                DictSet(@, At(ax.y, idx_y),
                        IF ax.y_helptext.some
                        THEN [pseudolang_and_val EXCEPT !.help_text =
                                 Some(At(ax.y_helptext.v, idx_y))]
                        ELSE pseudolang_and_val)]

RECURSIVE DictInner(_, _, _, _, _, _, _)
DictInner(st, a, ax, languages, languages_used, idx_x, idx_y) ==
    IF idx_y >= ax.y_range \/ ~Ok(st) THEN st
    ELSE DictInner(DictCell(st, a, ax, languages, languages_used, idx_x, idx_y),
                   a, ax, languages, languages_used, idx_x, idx_y + 1)

RECURSIVE DictOuter(_, _, _, _, _, _)
DictOuter(st, a, ax, languages, languages_used, idx_x) ==
    IF idx_x >= ax.x_range \/ ~Ok(st) THEN st
    ELSE LET st1 == DictInner(
                       [st EXCEPT !.y_values =
                           [key |-> ax.y_start_key, items |-> EmptyDict,
                            help_text |-> None]],
                       a, ax, languages, languages_used, idx_x, 0)
         IN  IF ~Ok(st1) THEN st1
             ELSE IF ~InRange(ax.x, idx_x) THEN Raise(st1, "IndexError")
             ELSE IF ax.x_helptext.some /\ ~InRange(ax.x_helptext.v, idx_x)
             THEN Raise(st1, "IndexError")
             ELSE DictOuter(
                     [st1 EXCEPT !.values =
                         DictSet(@, At(ax.x, idx_x),
                                 IF ax.x_helptext.some
                                 THEN [st1.y_values EXCEPT !.help_text =
                                          Some(At(ax.x_helptext.v, idx_x))]
                                 ELSE st1.y_values)],
                     a, ax, languages, languages_used, idx_x + 1)

\* mutant: only too many pseudonyms are refused
PseudonymsTooMany(languages_pseudonyms, languages) ==
    languages_pseudonyms.some /\ Len(languages_pseudonyms.v) > Len(languages)

\* the sanity check of the pseudonyms (lines 276-281)
PseudonymsMismatch(languages_pseudonyms, languages) ==
    languages_pseudonyms.some /\ Len(languages_pseudonyms.v) # Len(languages)

\* an entry of an artifact that can hold a dict of variables: either the
\* dict of the registry itself (by reference) or a dict of its own
SameObject == [ref |-> TRUE, v |-> <<>>]

\* what is read through such an entry
Contents(entry) == IF entry.ref THEN variables_dict ELSE entry.v

\* the document that is returned (lines 339, 372-381);
\* values['variables'] = self._get_variables().variables_dict stores the
\* registry's dict itself, not a copy
Document(st, a, ax) ==
    [kind |-> "dict",
     key |-> ax.x_start_key,
     items |-> st.values,
     variables |-> SameObject,
     row_labels |-> IF a.by_row THEN ax.x ELSE ax.y,
     column_labels |-> IF a.by_row THEN ax.y ELSE ax.x]

ToDictionary(a) ==
    LET warned == log_export_subset_warning_if_needed(<<>>)
        languages == IF a.languages.some THEN a.languages.v
                     ELSE cell_indices.languages
        languages_used == IF a.languages_pseudonyms.some
                          THEN a.languages_pseudonyms.v ELSE languages
        ax == Axes(a)
        st == DictOuter(
                 [log |-> AxesLog(warned, a), err |-> "none",
                  values |-> EmptyDict,
                  y_values |-> [key |-> ax.y_start_key, items |-> EmptyDict,
                                help_text |-> None]],
                 a, ax, languages, languages_used, 0)
    IN  IF PseudonymsMismatch(a.languages_pseudonyms, languages)
        THEN [log |-> warned, err |-> "ValueError", out |-> NoResult]
        ELSE IF ~Ok(st)
        THEN [log |-> st.log, err |-> st.err, out |-> NoResult]
        ELSE [log |-> Append(st.log, VariablesRead), err |-> "none",
              out |-> Document(st, a, ax)]

DictionaryArgs ==
    [languages : {None, Some(<<"excel">>), Some(<<"native", "excel">>)},
     by_row : BOOLEAN,
     languages_pseudonyms : {None, Some(<<"p1">>), Some(<<"p1", "p2">>)},
     spaces_replacement : {<<" ">>, <<"_">>},
     skip_nan_cell : BOOLEAN,
     nan_replacement : {NoneValue, Str(<<"N", "A">>)}]

to_dictionary ==
    /\ pc = "idle"
    /\ \E a \in DictionaryArgs :
          Finish("to_dictionary", a, ToDictionary(a))
    /\ workbook' = NoWorkbook

----------------------------------------------------------------------------
(* The xlsxwriter workbook, as far as to_excel uses it. *)

\* xlsxwriter.Workbook(file_path)
WbOpen(st) == Logged([st EXCEPT !.wb.opened = TRUE], Opened)

\* workbook.close()
WbClose(st) == Logged([st EXCEPT !.wb.closed = TRUE], Closed)

\* workbook.add_worksheet(name=name)
AddWorksheet(st, name) == [st EXCEPT !.wb.sheets = Append(@, name)]

\* worksheet.write(row, col, data, format)
Write(st, sheet, row, col, data, format) ==
    [st EXCEPT !.wb.writes =
        Append(@, [sheet |-> sheet, row |-> row, col |-> col,
                   op |-> "write", data |-> data, formula |-> <<>>,
                   format |-> format])]

\* worksheet.write_formula(row, col, formula, value=value, cell_format=format)
WriteFormula(st, sheet, row, col, formula, value, format) ==
    [st EXCEPT !.wb.writes =
        Append(@, [sheet |-> sheet, row |-> row, col |-> col,
                   op |-> "write_formula", data |-> value,
                   formula |-> formula, format |-> format])]

\* workbook.define_name(name, formula)
DefineName(st, name, formula) ==
    [st EXCEPT !.wb.names = Append(@, [name |-> name, formula |-> formula])]

\* a format registered with workbook.add_format
NoFormat == [kind |-> "none", spec |-> {}]

CellFormat(spec) == [kind |-> "cell", spec |-> spec]

ColLabelFormat == [kind |-> "col_label", spec |-> {"bold"}]

RowLabelFormat == [kind |-> "row_label", spec |-> {"bold"}]

----------------------------------------------------------------------------
(* Serialization.to_excel *)

XlsxSuffix == <<".", "x", "l", "s", "x">>

\* mutant: the suffix is looked for anywhere in the path
BadSuffixAnywhere(file_path) == ~Contains(file_path, XlsxSuffix)

\* ".xlsx" not in file_path[-5:]
BadSuffix(file_path) == ~Contains(SliceLast(file_path, 5), XlsxSuffix)

\* not isinstance(sheet_name, str) or len(sheet_name) < 1
BadSheetName(sheet_name) == ~sheet_name.some \/ Len(sheet_name.v) < 1

\* the variables as workbook-level names (lines 164-166)
RECURSIVE ExcelDefineNames(_, _)
ExcelDefineNames(st, k) ==
    IF k >= Len(variables_dict) THEN st
    ELSE ExcelDefineNames(
            DefineName(st, At(variables_dict, k).name,
                       PyStr(At(variables_dict, k).value)),
            k + 1)

\* mutant: the reference names the row index, not the Excel row number
VariableReferenceOfRowIndex(variables_sheet_name, row_idx) ==
    <<"=">> \o variables_sheet_name \o <<"!", "$", "B", "$">>
    \o IntToStr(row_idx)

\* f'={variables_sheet_name}!$B${row_idx + 1}'
VariableReference(variables_sheet_name, row_idx) ==
    <<"=">> \o variables_sheet_name \o <<"!", "$", "B", "$">>
    \o IntToStr(row_idx + 1)

\* the rows of the variables sheet (lines 176-186)
RECURSIVE ExcelVariableRows(_, _, _, _)
ExcelVariableRows(st, a, k, row_idx) ==
    IF k >= Len(variables_dict) THEN st
    ELSE LET var == At(variables_dict, k)
             sheet == a.variables_sheet_name.v
             st1 == Write(st, sheet, row_idx, 0, Str(var.name), NoFormat)
             st2 == Write(st1, sheet, row_idx, 1, var.value, NoFormat)
             st3 == Write(st2, sheet, row_idx, 2, Str(var.description),
                          NoFormat)
         IN  ExcelVariableRows(
                DefineName(st3, var.name, VariableReference(sheet, row_idx)),
                a, k + 1, row_idx + 1)

HeaderKeys == <<"name", "value", "description">>

\* the header of the variables sheet (lines 170-175)
RECURSIVE ExcelVariablesHeader(_, _, _)
ExcelVariablesHeader(st, a, k) ==
    IF k >= Len(HeaderKeys) \/ ~Ok(st) THEN st
    ELSE IF At(HeaderKeys, k) \notin DOMAIN a.variables_sheet_header
    THEN Raise(st, "KeyError")
    ELSE ExcelVariablesHeader(
            Write(st, a.variables_sheet_name.v, 0, k,
                  Str(a.variables_sheet_header[At(HeaderKeys, k)]),
                  ColLabelFormat),
            a, k + 1)

\* register all variables (lines 161-186)
ExcelVariables(st, a) ==
    LET st0 == Logged(st, VariablesRead)
    IN  IF Len(variables_dict) = 0 THEN st0
        ELSE IF ~a.variables_sheet_name.some THEN ExcelDefineNames(st0, 0)
        ELSE LET st1 == ExcelVariablesHeader(
                           AddWorksheet(st0, a.variables_sheet_name.v), a, 0)
             IN  IF ~Ok(st1) THEN st1 ELSE ExcelVariableRows(st1, a, 0, 1)

\* mutant: the data cells are shifted when the flag is not set
ExcelLabelShiftInverted == IF cell_indices.excel_append_labels THEN 0 ELSE 1

\* offset = 0; if self.cell_indices.excel_append_labels: offset = 1
ExcelLabelShift == IF cell_indices.excel_append_labels THEN 1 ELSE 0

\* the body of the inner loop (lines 191-216)
ExcelCell(st, a, row_idx, col_idx) ==
    LET cell == get_cell_at(row_idx, col_idx)
        st1 == Logged(st, Fetched(row_idx, col_idx))
        offset == ExcelLabelShift
        cell_format == IF Cardinality(cell.excel_format) > 0
                       THEN CellFormat(cell.excel_format) ELSE NoFormat
    IN  IF cell.value.k = "none" THEN st1
        ELSE IF cell.cell_type = "value_only"
        THEN Write(st1, a.sheet_name.v, row_idx + offset, col_idx + offset,
                   cell.value, cell_format)
        ELSE IF "excel" \notin DOMAIN cell.parse THEN Raise(st1, "KeyError")
        ELSE WriteFormula(st1, a.sheet_name.v, row_idx + offset,
                          col_idx + offset, cell.parse["excel"], cell.value,
                          cell_format)

RECURSIVE ExcelCols(_, _, _, _)
ExcelCols(st, a, row_idx, col_idx) ==
    IF col_idx >= Cols \/ ~Ok(st) THEN st
    ELSE ExcelCols(ExcelCell(st, a, row_idx, col_idx), a, row_idx, col_idx + 1)

RECURSIVE ExcelRows(_, _, _)
ExcelRows(st, a, row_idx) ==
    IF row_idx >= Rows \/ ~Ok(st) THEN st
    ELSE ExcelRows(ExcelCols(st, a, row_idx, 0), a, row_idx + 1)

\* the labels of the columns (lines 220-227)
RECURSIVE ExcelColumnLabels(_, _, _)
ExcelColumnLabels(st, a, col_idx) ==
    IF col_idx >= Cols \/ ~Ok(st) THEN st
    ELSE IF ~InRange(cell_indices.columns_labels, col_idx + export_offset[2])
    THEN Raise(st, "IndexError")
    ELSE ExcelColumnLabels(
            Write(Logged(st, LabelRead("columns", col_idx + export_offset[2])),
                  a.sheet_name.v, 0, col_idx + 1,
                  Str(ReplaceSpaces(
                         At(cell_indices.columns_labels,
                            col_idx + export_offset[2]),
                         a.spaces_replacement)),
                  ColLabelFormat),
            a, col_idx + 1)

\* the labels of the rows (lines 229-236)
RECURSIVE ExcelRowLabels(_, _, _)
ExcelRowLabels(st, a, row_idx) ==
    IF row_idx >= Rows \/ ~Ok(st) THEN st
    ELSE IF ~InRange(cell_indices.rows_labels, row_idx + export_offset[1])
    THEN Raise(st, "IndexError")
    ELSE ExcelRowLabels(
            Write(Logged(st, LabelRead("rows", row_idx + export_offset[1])),
                  a.sheet_name.v, row_idx + 1, 0,
                  Str(ReplaceSpaces(
                         At(cell_indices.rows_labels,
                            row_idx + export_offset[1]),
                         a.spaces_replacement)),
                  RowLabelFormat),
            a, row_idx + 1)

\* add the labels for rows and columns (lines 217-236)
ExcelLabels(st, a) ==
    IF ~Ok(st) \/ ~cell_indices.excel_append_labels THEN st
    ELSE ExcelRowLabels(ExcelColumnLabels(st, a, 0), a, 0)

\* workbook.close() is the last statement of to_excel (line 238): an
\* exception raised before it skips it
ExcelClose(st) == IF Ok(st) THEN WbClose(st) ELSE st

\* the call from the opening of the workbook on (lines 154-238)
ExcelExport(st, a) ==
    LET opened == AddWorksheet(WbOpen(st), a.sheet_name.v)
        registered == ExcelVariables(opened, a)
        written == ExcelRows(registered, a, 0)
    IN  ExcelClose(ExcelLabels(written, a))

\* the sanity check and the warning (lines 146-152)
ExcelChecked(st, a) ==
    IF BadSuffix(a.file_path) THEN Raise(st, "ValueError")
    ELSE IF BadSheetName(a.sheet_name) THEN Raise(st, "ValueError")
    ELSE [st EXCEPT !.log = log_export_subset_warning_if_needed(@)]

ToExcel(a) ==
    LET checked == ExcelChecked(
                      [log |-> <<>>, err |-> "none", wb |-> NoWorkbook], a)
        st == IF Ok(checked) THEN ExcelExport(checked, a) ELSE checked
    IN  [log |-> st.log, err |-> st.err, wb |-> st.wb, out |-> NoResult]

FilePaths ==
    { <<"a", ".", "x", "l", "s", "x">>,
      <<".", "x", "l", "s", "x">>,
      <<"a", ".", "X", "L", "S", "X">>,
      <<".", "x", "l", "s", "x", "b">>,
      <<"x", "l", "s", "x">>,
      <<>> }

DefaultHeader ==
    [k \in {"name", "value", "description"} |->
        CASE k = "name" -> <<"N", "a", "m", "e">>
          [] k = "value" -> <<"V", "a", "l", "u", "e">>
          [] OTHER -> <<"D", "e", "s", "c", "r", "i", "p", "t", "i", "o", "n">>]

ExcelArgs ==
    [file_path : FilePaths,
     sheet_name : {None, Some(<<>>), Some(<<"R", "e", "s">>)},
     spaces_replacement : {<<" ">>, <<"_">>},
     variables_sheet_name : {None, Some(<<"V", "a", "r", "s">>)},
     variables_sheet_header :
        {DefaultHeader, [k \in {"name", "description"} |-> DefaultHeader[k]]}]

to_excel ==
    /\ pc = "idle"
    /\ \E a \in ExcelArgs :
          /\ Finish("to_excel", a, ToExcel(a))
          /\ workbook' = ToExcel(a).wb

----------------------------------------------------------------------------
(* spreadsheet.py: class Spreadsheet.  A Spreadsheet is a whole sheet: its  *)
(* shape is the shape of its cell indices and it has no export offset.     *)

\* the sheets that are Spreadsheet objects
IsSpreadsheet ==
    /\ export_offset = <<0, 0>>
    /\ Len(cell_indices.rows_nicknames) = Rows
    /\ Len(cell_indices.columns_nicknames) = Cols

\* list.index(x): the first position of x, or ValueError
ListIndex(seq, x) ==
    IF \E k \in 1..Len(seq) : seq[k] = x
    THEN [err |-> "none",
          i |-> (CHOOSE k \in 1..Len(seq) :
                    seq[k] = x /\ \A m \in 1..(k - 1) : seq[m] # x) - 1]
    ELSE [err |-> "ValueError", i |-> 0]

\* Spreadsheet._get_item(index_integer, index_nickname), both Optional
get_item(index_integer, index_nickname) ==
    LET x == ListIndex(cell_indices.rows_nicknames, index_nickname.v[1])
        y == ListIndex(cell_indices.rows_nicknames, index_nickname.v[2])
        index == IF index_nickname.some THEN <<x.i, y.i>>
                 ELSE index_integer.v
    IN  IF index_integer.some /\ index_nickname.some
        THEN [err |-> "ValueError", cell |-> None]
        ELSE IF index_nickname.some /\ x.err # "none"
        THEN [err |-> x.err, cell |-> None]
        ELSE IF index_nickname.some /\ y.err # "none"
        THEN [err |-> y.err, cell |-> None]
        ELSE IF ~index_integer.some /\ ~index_nickname.some
        THEN [err |-> "none", cell |-> None]
        ELSE IF index \notin DOMAIN cells
        THEN [err |-> "IndexError", cell |-> None]
        ELSE [err |-> "none", cell |-> Some(cells[index])]

\* self.iloc[row, col]: _Location.__getitem__ with by_integer
iloc(row, col) == get_item(Some(<<row, col>>), None)

\* the body of the inner loop of Spreadsheet.to_excel (lines 117-127)
SheetExcelCell(st, a, row_idx, col_idx) ==
    LET got == iloc(row_idx, col_idx)
        cell == got.cell.v
        st1 == Logged(st, Fetched(row_idx, col_idx))
    IN  IF got.err # "none" THEN Raise(st, got.err)
        ELSE IF cell.value.k = "none" THEN st1
        ELSE IF cell.cell_type = "value_only"
        THEN Write(st1, a.sheet_name.v, row_idx, col_idx, cell.value, NoFormat)
        ELSE IF "excel" \notin DOMAIN cell.parse THEN Raise(st1, "KeyError")
        ELSE WriteFormula(st1, a.sheet_name.v, row_idx, col_idx,
                          cell.parse["excel"], cell.value, NoFormat)

RECURSIVE SheetExcelCols(_, _, _, _)
SheetExcelCols(st, a, row_idx, col_idx) ==
    IF col_idx >= Cols \/ ~Ok(st) THEN st
    ELSE SheetExcelCols(SheetExcelCell(st, a, row_idx, col_idx),
                        a, row_idx, col_idx + 1)

RECURSIVE SheetExcelRows(_, _, _)
SheetExcelRows(st, a, row_idx) ==
    IF row_idx >= Rows \/ ~Ok(st) THEN st
    ELSE SheetExcelRows(SheetExcelCols(st, a, row_idx, 0), a, row_idx + 1)

\* Spreadsheet.to_excel (lines 106-129)
SheetToExcel(a) ==
    LET st0 == [log |-> <<>>, err |-> "none", wb |-> NoWorkbook]
        st == IF BadSuffix(a.file_path) \/ BadSheetName(a.sheet_name)
              THEN Raise(st0, "ValueError")
              ELSE ExcelClose(SheetExcelRows(
                      AddWorksheet(WbOpen(st0), a.sheet_name.v), a, 0))
    IN  [log |-> st.log, err |-> st.err, wb |-> st.wb, out |-> NoResult]

SheetExcelArgs ==
    [file_path : FilePaths,
     sheet_name : {None, Some(<<>>), Some(<<"R", "e", "s">>)}]

Spreadsheet_to_excel ==
    /\ pc = "idle"
    /\ IsSpreadsheet
    /\ \E a \in SheetExcelArgs :
          /\ Finish("Spreadsheet.to_excel", a, SheetToExcel(a))
          /\ workbook' = SheetToExcel(a).wb

\* the body of the inner loop of Spreadsheet.to_dictionary (lines 174-189)
SheetDictCell(st, a, y, languages, languages_used, idx_x, idx_y) ==
    LET pos == IF a.by_row THEN <<idx_x, idx_y>> ELSE <<idx_y, idx_x>>
        got == iloc(pos[1], pos[2])
        cell == got.cell.v
        st1 == Logged(st, Fetched(pos[1], pos[2]))
        texts == DictTexts([d |-> EmptyDict, err |-> "none"], cell.parse,
                           languages, languages_used, 0)
    IN  IF got.err # "none" THEN Raise(st, got.err)
        ELSE IF cell.value.k = "none" THEN st1
        ELSE IF ~Ok(texts) THEN Raise(st1, texts.err)
        ELSE IF ~InRange(y, idx_y) THEN Raise(st1, "IndexError")
        ELSE [st1 EXCEPT !.x_values =
                DictSet(@, At(y, idx_y),
                        [texts |-> texts.d, value |-> cell.value])]

RECURSIVE SheetDictInner(_, _, _, _, _, _, _, _)
SheetDictInner(st, a, y, y_range, languages, languages_used, idx_x, idx_y) ==
    IF idx_y >= y_range \/ ~Ok(st) THEN st
    ELSE SheetDictInner(
            SheetDictCell(st, a, y, languages, languages_used, idx_x, idx_y),
            a, y, y_range, languages, languages_used, idx_x, idx_y + 1)

RECURSIVE SheetDictOuter(_, _, _, _, _, _)
SheetDictOuter(st, a, ax, languages, languages_used, idx_x) ==
    IF idx_x >= ax.x_range \/ ~Ok(st) THEN st
    ELSE LET st1 == SheetDictInner([st EXCEPT !.x_values = EmptyDict], a,
                                   ax.y, ax.y_range, languages,
                                   languages_used, idx_x, 0)
         IN  IF ~Ok(st1) THEN st1
             ELSE IF ~InRange(ax.x, idx_x) THEN Raise(st1, "IndexError")
             ELSE SheetDictOuter(
                     [st1 EXCEPT !.values =
                         DictSet(@, At(ax.x, idx_x), st1.x_values)],
                     a, ax, languages, languages_used, idx_x + 1)

\* the axes of Spreadsheet.to_dictionary (lines 160-168)
SheetAxes(a) ==
    IF a.by_row
    THEN [x_range |-> Rows, x |-> cell_indices.rows_nicknames,
          y_range |-> Cols, y |-> cell_indices.columns_nicknames]
    ELSE [x_range |-> Cols, x |-> cell_indices.columns_nicknames,
          y_range |-> Rows, y |-> cell_indices.rows_nicknames]

\* Spreadsheet.to_dictionary (lines 145-191)
SheetToDictionary(a) ==
    LET languages == IF a.languages.some THEN a.languages.v
                     ELSE cell_indices.languages
        languages_used == IF a.languages_pseudonyms.some
                          THEN a.languages_pseudonyms.v ELSE languages
        st == SheetDictOuter(
                 [log |-> <<>>, err |-> "none", values |-> EmptyDict,
                  x_values |-> EmptyDict],
                 a, SheetAxes(a), languages, languages_used, 0)
    IN  IF PseudonymsMismatch(a.languages_pseudonyms, languages)
        THEN [log |-> <<>>, err |-> "ValueError", out |-> NoResult]
        ELSE [log |-> st.log, err |-> st.err,
              out |-> [kind |-> "nested", items |-> st.values]]

SheetDictionaryArgs ==
    [languages : {None, Some(<<"excel">>), Some(<<"native", "excel">>)},
     by_row : BOOLEAN,
     languages_pseudonyms : {None, Some(<<"p1">>), Some(<<"p1", "p2">>)}]

Spreadsheet_to_dictionary ==
    /\ pc = "idle"
    /\ IsSpreadsheet
    /\ \E a \in SheetDictionaryArgs :
          Finish("Spreadsheet.to_dictionary", a, SheetToDictionary(a))
    /\ workbook' = NoWorkbook

----------------------------------------------------------------------------
(* Spreadsheet.iloc and Spreadsheet.loc *)

\* self.loc[row_nickname, column_nickname]: _Location.__getitem__ without
\* by_integer
loc(row_nickname, column_nickname) ==
    get_item(None, Some(<<row_nickname, column_nickname>>))

\* Cell(row, column, value=value, cell_indices=self.cell_indices)
NewCell(row, column, value) ==
    [value |-> value,
     cell_type |-> "value_only",
     parse |-> ParseText(cell_indices.languages, row, column),
     words |-> ParseText(cell_indices.languages, row, column),
     description |-> None,
     excel_format |-> {}]

\* Spreadsheet._set_item(value, index_integer, index_nickname), both
\* Optional: the sheet after the call, or the exception
set_item(value, index_integer, index_nickname) ==
    LET x == ListIndex(cell_indices.rows_nicknames, index_nickname.v[1])
        y == ListIndex(cell_indices.rows_nicknames, index_nickname.v[2])
        index == IF index_nickname.some THEN <<x.i, y.i>>
                 ELSE index_integer.v
    IN  IF index_integer.some /\ index_nickname.some
        THEN [err |-> "ValueError", sheet |-> cells]
        ELSE IF index_nickname.some /\ x.err # "none"
        THEN [err |-> x.err, sheet |-> cells]
        ELSE IF index_nickname.some /\ y.err # "none"
        THEN [err |-> y.err, sheet |-> cells]
        ELSE IF ~index_integer.some /\ ~index_nickname.some
        THEN [err |-> "none", sheet |-> cells]
        ELSE IF index \notin DOMAIN cells
        THEN [err |-> "IndexError", sheet |-> cells]
        ELSE [err |-> "none",
              sheet |-> [cells EXCEPT
                            ![index] = NewCell(index[1], index[2], value)]]

\* the indices a caller passes: a position of the sheet, or a pair of a row
\* nickname and a column nickname
Indices(by_integer) ==
    IF by_integer THEN Positions
    ELSE {<<cell_indices.rows_nicknames[p[1] + 1],
            cell_indices.columns_nicknames[p[2] + 1]>> : p \in Positions}

LocationArgs(by_integer) ==
    [by_integer : {by_integer}, index : Indices(by_integer)]

\* the value the caller sets
SetValue == Num(5)

\* cell = sheet.iloc[i, j] and cell = sheet.loc[r, c]
Spreadsheet_getitem ==
    /\ pc = "idle"
    /\ IsSpreadsheet
    /\ \E by_integer \in BOOLEAN :
          \E a \in LocationArgs(by_integer) :
              LET got == IF a.by_integer THEN get_item(Some(a.index), None)
                         ELSE get_item(None, Some(a.index))
              IN  /\ call' = [encoder |-> "Spreadsheet.__getitem__",
                              args |-> a]
                  /\ error' = got.err
                  /\ result' = IF got.err = "none"
                                THEN [kind |-> "cell", v |-> got.cell.v]
                                ELSE NoResult
    /\ pc' = "accessed"
    /\ log' = <<>>
    /\ workbook' = NoWorkbook
    /\ UNCHANGED gridVars

\* sheet.iloc[i, j] = value and sheet.loc[r, c] = value: the first write to
\* a sheet whose cells are all empty, as in the quick tests
Spreadsheet_setitem ==
    /\ pc = "idle"
    /\ IsSpreadsheet
    /\ \A p \in Positions : cells[p].value = NoneValue
    /\ \E by_integer \in BOOLEAN :
          \E a \in LocationArgs(by_integer) :
              LET done == IF a.by_integer
                          THEN set_item(SetValue, Some(a.index), None)
                          ELSE set_item(SetValue, None, Some(a.index))
              IN  /\ cells' = done.sheet
                  /\ error' = done.err
                  /\ call' = [encoder |-> "Spreadsheet.__setitem__",
                              args |-> a]
    /\ pc' = "accessed"
    /\ log' = <<>>
    /\ result' = NoResult
    /\ workbook' = NoWorkbook
    /\ UNCHANGED <<shape, export_offset, export_subset, cell_indices,
                   variables_dict>>

----------------------------------------------------------------------------
(* The caller drops the artifact; the next call starts afresh. *)

Return ==
    /\ pc \in {"returned", "accessed"}
    /\ pc' = "idle"
    /\ call' = NoCall
    /\ log' = <<>>
    /\ result' = NoResult
    /\ error' = "none"
    /\ workbook' = NoWorkbook
    /\ UNCHANGED gridVars

----------------------------------------------------------------------------
(* What happens while the caller holds a document of to_dictionary. *)

\* variables[name]['value'] = 0, for the k-th variable
SetVariable(variables, k) == [variables EXCEPT ![k].value = Num(0)]

\* the document the caller keeps: one of a sheet that is exported whole
KeptDocument ==
    /\ pc = "returned"
    /\ result.kind = "dict"
    /\ ~export_subset
    /\ export_offset = <<0, 0>>

\* the variable that is written: the first of the registry
FirstOf(variables) == {k \in DOMAIN variables : k = 1}

\* the caller writes document['variables'][name]['value'] = 0: the write
\* goes to the object the entry holds
artifact_set_variable ==
    /\ KeptDocument
    /\ \E k \in FirstOf(Contents(result.variables)) :
          /\ Contents(result.variables)[k].value # Num(0)
          /\ IF result.variables.ref
             THEN /\ variables_dict' = SetVariable(variables_dict, k)
                  /\ result' = result
             ELSE /\ result' = [result EXCEPT
                                   !.variables.v = SetVariable(@, k)]
                  /\ variables_dict' = variables_dict
    /\ UNCHANGED <<shape, export_offset, export_subset, cell_indices, cells,
                   pc, call, log, error, workbook>>

\* the owner of the grid sets a variable of the registry to 0
grid_set_variable ==
    /\ KeptDocument
    /\ \E k \in FirstOf(variables_dict) :
          /\ variables_dict[k].value # Num(0)
          /\ variables_dict' = SetVariable(variables_dict, k)
    /\ UNCHANGED <<shape, export_offset, export_subset, cell_indices, cells,
                   pc, call, log, result, error, workbook>>

----------------------------------------------------------------------------
(* What the claims speak of. *)

Returned == pc = "returned"

\* the eight encoders of Serialization
Encoders ==
    {"to_excel", "to_dictionary", "to_csv", "to_markdown", "to_html_table",
     "to_numpy", "to_2d_list", "to_string_of_values"}

\* the positions in the log of the events that satisfy Test
LogPositions(Test(_)) == {k \in DOMAIN log : Test(log[k])}

IsSubsetWarning(ev) == ev = Warned("subset")

IsCoercionWarning(ev) == ev = Warned("coerce")

IsWarning(ev) == ev.e = "warn"

IsFetch(ev) == ev.e = "fetch"

IsLabelRead(ev) == ev.e = "label"

IsVariablesRead(ev) == ev.e = "variables"

IsOpen(ev) == ev.e = "open"

\* the last five characters of the path are exactly ".xlsx"
SuffixIsXlsx(file_path) ==
    /\ Len(file_path) >= 5
    /\ \A k \in 1..5 : file_path[Len(file_path) - 5 + k] = XlsxSuffix[k]

\* the sheet name is a non-empty string
SheetNameIsGiven(sheet_name) == sheet_name.some /\ sheet_name.v # <<>>

\* a to_excel call that its argument check lets through
ExcelArgsValid ==
    SuffixIsXlsx(call.args.file_path) /\ SheetNameIsGiven(call.args.sheet_name)

\* the subset warning is logged exactly once, before the first cell fetch
WarnedOnceBeforeFetches ==
    /\ Cardinality(LogPositions(IsSubsetWarning)) = 1
    /\ \A w \in LogPositions(IsSubsetWarning), f \in LogPositions(IsFetch) :
          w < f

(* C1, as claimed: in every call of one of the eight encoders, the subset
   warning is logged exactly once and before the first cell fetch if
   export_subset is true, and never if export_subset is false. *)
C1_SubsetWarningOncePerCall ==
    (Returned /\ call.encoder \in Encoders) =>
        IF export_subset THEN WarnedOnceBeforeFetches
        ELSE LogPositions(IsSubsetWarning) = {}

(* C1, amended: the same, except that a to_excel call that is rejected by
   its argument check (bad suffix or sheet name) logs nothing at all: the
   check comes before the warning. *)
C1_SubsetWarningOncePerAcceptedCall ==
    (Returned /\ call.encoder \in Encoders) =>
        IF call.encoder = "to_excel" /\ ~ExcelArgsValid
        THEN log = <<>>
        ELSE IF export_subset THEN WarnedOnceBeforeFetches
        ELSE LogPositions(IsSubsetWarning) = {}

C1_Witness ==
    /\ Returned
    /\ call.encoder = "to_excel"
    /\ ExcelArgsValid
    /\ export_subset
    /\ shape = <<MaxRows, MaxCols>>
    /\ Cardinality(LogPositions(IsFetch)) = MaxRows * MaxCols
    /\ LogPositions(IsSubsetWarning) = {1}

\* the languages a to_dictionary call is asked for
RequestedLanguages ==
    IF call.args.languages.some THEN call.args.languages.v
    ELSE cell_indices.languages

\* a to_dictionary call whose pseudonyms do not count-match its languages
PseudonymsDiffer ==
    /\ Returned
    /\ call.encoder \in {"to_dictionary", "Spreadsheet.to_dictionary"}
    /\ call.args.languages_pseudonyms.some
    /\ Len(call.args.languages_pseudonyms.v) # Len(RequestedLanguages)

(* C2: a to_dictionary call whose languages_pseudonyms differ in length
   from the requested languages (the explicit list, or the languages of the
   grid) ends with ValueError before it touches the grid: it fetches no
   cell, reads no label and no variable, and returns no document. *)
C2_PseudonymMismatchFailsFirst ==
    PseudonymsDiffer =>
        /\ error = "ValueError"
        /\ result = NoResult
        /\ LogPositions(IsFetch) = {}
        /\ LogPositions(IsLabelRead) = {}
        /\ LogPositions(IsVariablesRead) = {}

C2_Witness ==
    /\ PseudonymsDiffer
    /\ call.encoder = "to_dictionary"
    /\ call.args.languages = Some(<<"native", "excel">>)
    /\ Len(call.args.languages_pseudonyms.v) = 1
    /\ shape = <<MaxRows, MaxCols>>
    /\ error = "ValueError"

\* a to_excel call with a bad suffix or a bad sheet name
ExcelArgsBad ==
    /\ Returned
    /\ call.encoder \in {"to_excel", "Spreadsheet.to_excel"}
    /\ ~ExcelArgsValid

(* C3: to_excel ends with ValueError whenever the last five characters of
   file_path are not exactly ".xlsx" or sheet_name is not a non-empty
   string, and then before any I/O or traversal: no workbook is opened,
   nothing is written, no cell is fetched. *)
C3_BadArgumentsFailFirst ==
    ExcelArgsBad =>
        /\ error = "ValueError"
        /\ workbook = NoWorkbook
        /\ LogPositions(IsOpen) = {}
        /\ LogPositions(IsFetch) = {}
        /\ LogPositions(IsLabelRead) = {}
        /\ LogPositions(IsVariablesRead) = {}

C3_Witness ==
    /\ ExcelArgsBad
    /\ call.encoder = "to_excel"
    /\ call.args.file_path = <<".", "x", "l", "s", "x", "b">>
    /\ SheetNameIsGiven(call.args.sheet_name)
    /\ shape = <<MaxRows, MaxCols>>
    /\ error = "ValueError"

(* C4, as claimed: a to_excel call that has opened the workbook has closed
   it when the call ends, whether it returns or raises. *)
C4_WorkbookClosedOnEveryExit ==
    (/\ Returned
     /\ call.encoder \in {"to_excel", "Spreadsheet.to_excel"}
     /\ workbook.opened) => workbook.closed

\* the cells for which to_numpy has to substitute NaN
NotNumeric == {p \in Positions : ~IsNumber(cells[p].value)}

\* the grid [[7, None], [9, 10]]
IsHoleGrid ==
    /\ shape = <<2, 2>>
    /\ cells[<<0, 0>>].value = Num(7)
    /\ cells[<<0, 1>>].value = NoneValue
    /\ cells[<<1, 0>>].value = Num(9)
    /\ cells[<<1, 1>>].value = Num(10)

(* C5, as claimed: a to_numpy call that substitutes NaN for at least one
   cell (a None or a non-numeric value) logs exactly one coercion notice;
   the grid [[7, None], [9, 10]] gives [[7, NaN], [9, 10]] and one notice. *)
C5_OneCoercionNoticeWhenSubstituted ==
    (Returned /\ call.encoder = "to_numpy") =>
        /\ (\E p \in NotNumeric : result.v.data[p] = NaN) =>
              Cardinality(LogPositions(IsCoercionWarning)) = 1
        /\ IsHoleGrid =>
              /\ result.v.data =
                    (<<0, 0>> :> Float(7)) @@ (<<0, 1>> :> NaN)
                    @@ (<<1, 0>> :> Float(9)) @@ (<<1, 1>> :> Float(10))
              /\ Cardinality(LogPositions(IsCoercionWarning)) = 1

(* C6: the coercion notice is logged at most once in a to_numpy call, after
   the subset notice if there is one (so at most two messages in all, the
   subset notice first), the call never ends with an error, and no other
   encoder logs the coercion notice. *)
C6_CoercionNoticeAtMostOnce ==
    Returned =>
        IF call.encoder = "to_numpy"
        THEN /\ Cardinality(LogPositions(IsCoercionWarning)) <= 1
             /\ Cardinality(LogPositions(IsWarning)) <= 2
             /\ export_subset => log[1] = Warned("subset")
             /\ \A c \in LogPositions(IsCoercionWarning) :
                   /\ c = Len(log)
                   /\ \A w \in LogPositions(IsSubsetWarning) : w < c
             /\ error = "none"
             /\ result.kind = "matrix"
        ELSE LogPositions(IsCoercionWarning) = {}

C6_Witness ==
    /\ Returned
    /\ call.encoder = "to_numpy"
    /\ export_subset
    /\ Cardinality({p \in Positions : cells[p].value.k = "str"}) >= 2
    /\ Cardinality(LogPositions(IsCoercionWarning)) = 1
    /\ Cardinality(LogPositions(IsWarning)) = 2

(* C7: the matrix to_numpy returns has the shape of the exported grid,
   every cell is fetched (once), and entry (i, j) is the value of cell
   (i, j) if that is a number and NaN if it is None or not a number. *)
C7_MatrixShapeAndEntries ==
    (Returned /\ call.encoder = "to_numpy") =>
        /\ result.v.shape = shape
        /\ DOMAIN result.v.data = Positions
        /\ \A p \in Positions :
              /\ Cardinality({k \in DOMAIN log : log[k] = Fetched(p[1], p[2])})
                    = 1
              /\ result.v.data[p] = IF cells[p].value.k = "num"
                                    THEN Float(cells[p].value.n) ELSE NaN

C7_Witness ==
    /\ Returned
    /\ call.encoder = "to_numpy"
    /\ shape = <<2, 2>>
    /\ \E p, q, r \in Positions :
          /\ cells[p].value.k = "num" /\ result.v.data[p].k = "float"
          /\ cells[q].value.k = "none" /\ result.v.data[q] = NaN
          /\ cells[r].value.k = "str" /\ result.v.data[r] = NaN

\* text split at every occurrence of the character ch
RECURSIVE SplitAt(_, _)
SplitAt(text, ch) ==
    IF \A k \in DOMAIN text : text[k] # ch THEN <<text>>
    ELSE LET first == CHOOSE k \in DOMAIN text :
                         text[k] = ch /\ \A m \in 1..(k - 1) : text[m] # ch
         IN  <<SubSeq(text, 1, first - 1)>>
             \o SplitAt(SubSeq(text, first + 1, Len(text)), ch)

CountOf(text, ch) == Cardinality({k \in DOMAIN text : text[k] = ch})

\* neither the labels nor the values hold the separator or the terminator
CsvClean ==
    LET special == {call.args.sep[1], call.args.line_terminator[1]}
        clean(text) == \A k \in DOMAIN text : text[k] \notin special
    IN  /\ \A k \in DOMAIN cell_indices.rows_labels :
              clean(cell_indices.rows_labels[k])
        /\ \A k \in DOMAIN cell_indices.columns_labels :
              clean(cell_indices.columns_labels[k])
        /\ \A p \in Positions : clean(PyStr(cells[p].value))

(* C8, as claimed: for every grid, also one with no rows or no columns,
   whose labels and values hold neither the separator nor the line
   terminator, the text to_csv returns has rows+1 lines and every line
   holds the separator exactly cols times. *)
C8_CsvLinesAndSeparators ==
    (Returned /\ call.encoder = "to_csv" /\ CsvClean) =>
        LET lines == SplitAt(result.v, call.args.line_terminator[1])
        IN  /\ error = "none"
            /\ Len(lines) = Rows + 1
            /\ \A k \in DOMAIN lines :
                  CountOf(lines[k], call.args.sep[1]) = Cols

\* the (rowLabel, colLabel, record) entries of a to_dictionary document
DocEntries(doc) ==
    LET keys == {p \in (DOMAIN doc.items)
                        \X (UNION {DOMAIN doc.items[x].items :
                                      x \in DOMAIN doc.items}) :
                    p[2] \in DOMAIN doc.items[p[1]].items}
    IN  {<<IF doc.key = "rows" THEN p[1] ELSE p[2],
           IF doc.key = "rows" THEN p[2] ELSE p[1],
           doc.items[p[1]].items[p[2]]>> : p \in keys}

\* the (rowNickname, colNickname, record) entries of a document of
\* Spreadsheet.to_dictionary
SheetEntries(doc, by_row) ==
    LET keys == {p \in (DOMAIN doc.items)
                        \X (UNION {DOMAIN doc.items[x] :
                                      x \in DOMAIN doc.items}) :
                    p[2] \in DOMAIN doc.items[p[1]]}
    IN  {<<IF by_row THEN p[1] ELSE p[2],
           IF by_row THEN p[2] ELSE p[1],
           doc.items[p[1]][p[2]]>> : p \in keys}

\* the arguments of the call, with by_row swapped
Transposed == [call.args EXCEPT !.by_row = ~@]

\* a record without its help_text
Content(rec) ==
    [texts |-> rec.texts, value |-> rec.value, description |-> rec.description]

ContentEntries(doc) == {<<e[1], e[2], Content(e[3])>> : e \in DocEntries(doc)}

\* the labels of the exported rows differ from each other, and so do the
\* labels of the exported columns (after the replacement of spaces)
ExportedLabelsDistinct ==
    LET ax == AxesByRow(call.args)
    IN  /\ \A i, j \in 1..Rows : i # j => ax.x[i] # ax.x[j]
        /\ \A i, j \in 1..Cols : i # j => ax.y[i] # ax.y[j]

\* the help texts of the inner axis of the call
InnerHelpText ==
    IF call.args.by_row THEN cell_indices.columns_help_text
    ELSE cell_indices.rows_help_text

\* Spreadsheet.to_dictionary: the document with by_row swapped has the same
\* entries
SheetTransposeLaw ==
    (Returned /\ call.encoder = "Spreadsheet.to_dictionary"
              /\ error = "none") =>
        LET other == SheetToDictionary(Transposed)
        IN  /\ other.err = "none"
            /\ SheetEntries(other.out, ~call.args.by_row)
                  = SheetEntries(result, call.args.by_row)

(* C9, as claimed: for every grid and every choice of the other arguments,
   the documents to_dictionary gives with by_row true and with by_row false
   hold the same (rowLabel, colLabel) -> record entries, the records
   identical in texts, value, description and help_text, and only the
   "rows" and "columns" keys swapped. *)
C9_TransposeLaw ==
    /\ SheetTransposeLaw
    /\ (Returned /\ call.encoder = "to_dictionary" /\ error = "none") =>
          LET other == ToDictionary(Transposed)
          IN  /\ other.err = "none"
              /\ other.out.key # result.key
              /\ DocEntries(other.out) = DocEntries(result)

(* C9, amended: if the labels of the exported rows differ from each other
   and so do those of the exported columns, or if no None cell is skipped,
   the two documents hold the same (rowLabel, colLabel) -> record entries
   with identical texts, value and description and with the "rows" and
   "columns" keys swapped; the help_text of a record is the help text of
   the label of the inner axis (of the column with by_row true, of the row
   with by_row false), and is there only if that axis has help texts. *)
C9_TransposeLawOfContent ==
    /\ SheetTransposeLaw
    /\ (Returned /\ call.encoder = "to_dictionary" /\ error = "none") =>
          LET other == ToDictionary(Transposed)
          IN  /\ other.err = "none"
              /\ other.out.key # result.key
              /\ (ExportedLabelsDistinct \/ ~call.args.skip_nan_cell) =>
                    ContentEntries(other.out) = ContentEntries(result)
              /\ \A e \in DocEntries(result) :
                    /\ e[3].help_text.some = InnerHelpText.some
                    /\ e[3].help_text.some =>
                          \E k \in DOMAIN InnerHelpText.v :
                              InnerHelpText.v[k] = e[3].help_text.v

C9_Witness ==
    /\ Returned
    /\ call.encoder = "to_dictionary"
    /\ error = "none"
    /\ call.args.by_row
    /\ shape = <<2, 2>>
    /\ export_offset = <<1, 0>>
    /\ ~cell_indices.rows_help_text.some
    /\ cell_indices.columns_help_text.some
    /\ ExportedLabelsDistinct
    /\ result.key = "rows"
    /\ Cardinality(DocEntries(result)) = 4
    /\ DocEntries(ToDictionary(Transposed).out) # DocEntries(result)
    /\ ContentEntries(ToDictionary(Transposed).out) = ContentEntries(result)

\* the full row label at index i + offset.row, spaces replaced
ExportedRowLabel(i) ==
    ReplaceSpaces(cell_indices.rows_labels[i + export_offset[1] + 1],
                  call.args.spaces_replacement)

\* the full column label at index j + offset.col, spaces replaced
ExportedColumnLabel(j) ==
    ReplaceSpaces(cell_indices.columns_labels[j + export_offset[2] + 1],
                  call.args.spaces_replacement)

IsTrailEvent(ev) == IsLabelRead(ev) \/ IsFetch(ev)

\* the label reads and cell fetches of the call, in order
Trail == SelectSeq(log, IsTrailEvent)

IsPrefix(s, t) == Len(s) <= Len(t) /\ SubSeq(t, 1, Len(s)) = s

\* one read per exported column, of the label at index j + offset.col
ColumnReads ==
    [k \in 1..Cols |-> LabelRead("columns", k - 1 + export_offset[2])]

\* one read per exported row, of the label at index i + offset.row
RowReads == [k \in 1..Rows |-> LabelRead("rows", k - 1 + export_offset[1])]

\* per exported row i: the read of the label at index i + offset.row, then
\* the fetches of the cells (i, 0), (i, 1), ...
RowsWithFetches ==
    [k \in 1..(Rows * (Cols + 1)) |->
        LET i == (k - 1) \div (Cols + 1)
            r == (k - 1) % (Cols + 1)
        IN  IF r = 0 THEN LabelRead("rows", i + export_offset[1])
            ELSE Fetched(i, r - 1)]

RowMajorFetches ==
    [k \in 1..(Rows * Cols) |-> Fetched((k - 1) \div Cols, (k - 1) % Cols)]

\* to_csv, to_markdown, to_html_table: the column labels, then row by row
TextTrail == ColumnReads \o RowsWithFetches

\* to_excel: the cells, then the labels if they are appended
ExcelTrail ==
    RowMajorFetches
    \o (IF cell_indices.excel_append_labels THEN ColumnReads \o RowReads
        ELSE <<>>)

\* the CSV text holds the labels at the head of their lines and columns,
\* next to the values of the cells of that row and column
CsvLabelsPaired ==
    LET lines == SplitAt(result.v, call.args.line_terminator[1])
        fields(k) == SplitAt(lines[k], call.args.sep[1])
    IN  /\ \A j \in 0..(Cols - 1) : fields(1)[j + 2] = ExportedColumnLabel(j)
        /\ \A i \in 0..(Rows - 1) :
              /\ fields(i + 2)[1] = ExportedRowLabel(i)
              /\ \A j \in 0..(Cols - 1) :
                    fields(i + 2)[j + 2] =
                        ValueText(cells[<<i, j>>].value, call.args.na_rep)

\* the Markdown text holds each label, the row labels next to the first
\* value of their row
MarkdownLabelsPaired ==
    /\ \A j \in 0..(Cols - 1) :
          Contains(result.v, <<"*">> \o ExportedColumnLabel(j) \o <<"*">>)
    /\ \A i \in 0..(Rows - 1) :
          Contains(result.v,
                   <<"| *">> \o ExportedRowLabel(i) \o <<"*", " | ">>
                   \o (IF Cols > 0
                       THEN ValueText(cells[<<i, 0>>].value, call.args.na_rep)
                       ELSE <<>>))

\* the HTML text holds each label in its anchor, the row labels next to
\* the first cell of their row
HtmlLabelsPaired ==
    /\ \A j \in 0..(Cols - 1) :
          Contains(result.v,
                   <<">">> \o ExportedColumnLabel(j) \o <<"</a>", "</th>">>)
    /\ \A i \in 0..(Rows - 1) :
          Contains(result.v,
                   <<">">> \o ExportedRowLabel(i) \o <<"</a>", "</td>">>
                   \o (IF Cols > 0
                       THEN <<"<td>">>
                            \o Anchor(HtmlCellTitle(cells[<<i, 0>>],
                                                    call.args).title_attr)
                            \o ValueText(cells[<<i, 0>>].value,
                                         call.args.na_rep)
                       ELSE <<>>))

\* the writes to the main sheet at a position
WritesAt(row, col) ==
    {k \in DOMAIN workbook.writes :
        /\ workbook.writes[k].sheet = call.args.sheet_name.v
        /\ workbook.writes[k].row = row
        /\ workbook.writes[k].col = col}

\* the workbook holds the labels in row 0 and column 0, one cell beside the
\* values of their row and column
ExcelLabelsPaired ==
    /\ \A j \in 0..(Cols - 1) :
          \E k \in WritesAt(0, j + 1) :
              workbook.writes[k].data = Str(ExportedColumnLabel(j))
    /\ \A i \in 0..(Rows - 1) :
          \E k \in WritesAt(i + 1, 0) :
              workbook.writes[k].data = Str(ExportedRowLabel(i))
    /\ \A p \in Positions :
          cells[p].value.k # "none" =>
              \E k \in WritesAt(p[1] + 1, p[2] + 1) :
                  workbook.writes[k].data = cells[p].value

\* the document lists the labels from the offset on, and the entry of the
\* labels of row i and column j is made from cell (i, j)
DictionaryLabelsPaired ==
    LET languages == RequestedLanguages
        used == IF call.args.languages_pseudonyms.some
                THEN call.args.languages_pseudonyms.v ELSE languages
    IN  /\ \A i \in 0..(Rows - 1) :
              result.row_labels[i + 1] = ExportedRowLabel(i)
        /\ \A j \in 0..(Cols - 1) :
              result.column_labels[j + 1] = ExportedColumnLabel(j)
        /\ ExportedLabelsDistinct =>
              \A p \in Positions :
                 LET skipped == cells[p].value.k = "none"
                                  /\ call.args.skip_nan_cell
                     rec == <<ExportedRowLabel(p[1]),
                              ExportedColumnLabel(p[2])>>
                     found == {e \in DocEntries(result) :
                                  e[1] = rec[1] /\ e[2] = rec[2]}
                 IN  IF skipped THEN found = {}
                     ELSE /\ Cardinality(found) = 1
                          /\ \A e \in found :
                                \A k \in 1..Len(languages) :
                                   e[3].texts[used[k]] =
                                       cells[p].parse[languages[k]]

(* C10: to_excel, to_dictionary, to_csv, to_markdown and to_html_table all
   take the label of exported row i from index i + offset.row of the row
   labels and the label of exported column j from index j + offset.col of
   the column labels, and put it with the cells fetched at (i, j): one
   label per exported row and column, so with offset (1, 0) on a sheet of
   3 rows and 2 columns two row labels are exported, the first of them the
   label of index 1. *)
C10_LabelsFollowTheOffset ==
    Returned =>
        /\ call.encoder \in {"to_csv", "to_markdown", "to_html_table"} =>
              /\ IsPrefix(Trail, TextTrail)
              /\ error = "none" => Trail = TextTrail
        /\ (call.encoder = "to_csv" /\ error = "none" /\ CsvClean) =>
              CsvLabelsPaired
        /\ (call.encoder = "to_markdown" /\ error = "none") =>
              MarkdownLabelsPaired
        /\ (call.encoder = "to_html_table" /\ error = "none") =>
              HtmlLabelsPaired
        /\ call.encoder = "to_excel" =>
              /\ IsPrefix(Trail, ExcelTrail)
              /\ error = "none" => Trail = ExcelTrail
              /\ (error = "none" /\ cell_indices.excel_append_labels) =>
                    ExcelLabelsPaired
        /\ call.encoder = "to_dictionary" =>
              /\ \A k \in LogPositions(IsLabelRead) :
                    log[k].i = (IF log[k].a = "rows" THEN export_offset[1]
                                ELSE export_offset[2])
              /\ error = "none" => DictionaryLabelsPaired

C10_Witness ==
    /\ Returned
    /\ call.encoder = "to_csv"
    /\ error = "none"
    /\ shape = <<2, 2>>
    /\ export_offset = <<1, 0>>
    /\ Len(cell_indices.rows_labels) = 3
    /\ Len(cell_indices.columns_labels) = 2
    /\ CsvClean
    /\ {log[k].i : k \in {m \in LogPositions(IsLabelRead) :
                               log[m].a = "rows"}} = {1, 2}
    /\ SplitAt(SplitAt(result.v, "\n")[2], call.args.sep[1])[1]
          = <<"r", " ", "1">>

(* C11, as claimed: in the document of to_dictionary, whatever by_row is,
   'row-labels' holds the labels of the exported rows and 'column-labels'
   those of the exported columns: the label arrays from the offset on, of
   length shape[0] and shape[1], also if the exported grid ends before the
   last row or column of the sheet. *)
C11_LabelListsHaveExportedLength ==
    (Returned /\ call.encoder = "to_dictionary" /\ error = "none") =>
        /\ Len(result.row_labels) = Rows
        /\ Len(result.column_labels) = Cols
        /\ \A i \in 0..(Rows - 1) :
              result.row_labels[i + 1] = ExportedRowLabel(i)
        /\ \A j \in 0..(Cols - 1) :
              result.column_labels[j + 1] = ExportedColumnLabel(j)

\* the tooltip and the label of exported row i, as claimed: both from index
\* i + offset.row
HtmlRowLabelAsClaimed(i) ==
    Anchor(TitleAttr(cell_indices.rows_help_text.v[i + export_offset[1] + 1]))
    \o ExportedRowLabel(i) \o <<"</a>", "</td>">>

\* the tooltip and the label of exported column j, as claimed: both from
\* index j + offset.col
HtmlColumnLabelAsClaimed(j) ==
    Anchor(TitleAttr(
              cell_indices.columns_help_text.v[j + export_offset[2] + 1]))
    \o ExportedColumnLabel(j) \o <<"</a>", "</th>">>

(* C12, as claimed: in the text of to_html_table the tooltip of the label
   of exported row i is the row help text at index i + offset.row and the
   tooltip of the label of exported column j is the column help text at
   index j + offset.col, for every offset pair; the help texts that are
   there for every label never make the call fail. *)
C12_HelpTextFollowsTheOffset ==
    (Returned /\ call.encoder = "to_html_table") =>
        /\ error # "IndexError"
        /\ (error = "none" /\ cell_indices.rows_help_text.some) =>
              \A i \in 0..(Rows - 1) :
                  Contains(result.v, HtmlRowLabelAsClaimed(i))
        /\ (error = "none" /\ cell_indices.columns_help_text.some) =>
              \A j \in 0..(Cols - 1) :
                  Contains(result.v, HtmlColumnLabelAsClaimed(j))

\* the encoder of the call, run once more with the same arguments on the
\* grid as the call has left it
SecondRun ==
    CASE call.encoder = "to_2d_list" -> To2dList
      [] call.encoder = "to_string_of_values" -> ToStringOfValues
      [] call.encoder = "to_numpy" -> ToNumpy
      [] call.encoder = "to_csv" -> ToCsv(call.args)
      [] call.encoder = "to_markdown" -> ToMarkdown(call.args)
      [] call.encoder = "to_html_table" -> ToHtmlTable(call.args)
      [] call.encoder = "to_dictionary" -> ToDictionary(call.args)
      [] call.encoder = "to_excel" -> ToExcel(call.args)
      [] call.encoder = "Spreadsheet.to_excel" -> SheetToExcel(call.args)
      [] call.encoder = "Spreadsheet.to_dictionary" ->
            SheetToDictionary(call.args)

WritesWorkbook == call.encoder \in {"to_excel", "Spreadsheet.to_excel"}

(* C13: an encoder that is run a second time with the same arguments,
   right after the first run and on the grid as that run has left it, gives
   the same output (text, document, list, matrix; for to_excel the same
   workbook), ends the same way and logs the same diagnostics in the same
   order. *)
C13_SecondRunEqualsFirst ==
    Returned =>
        /\ SecondRun.log = log
        /\ SecondRun.err = error
        /\ error = "none" => SecondRun.out = result
        /\ WritesWorkbook => SecondRun.wb = workbook

C13_Witness ==
    /\ Returned
    /\ call.encoder = "to_dictionary"
    /\ error = "none"
    /\ export_subset
    /\ shape = <<2, 2>>
    /\ log[1] = Warned("subset")
    /\ Cardinality(DocEntries(result)) = 4
    /\ SecondRun.out = result
    /\ SecondRun.log = log

\* the elements of a sequence
Elements(seq) == {seq[k] : k \in DOMAIN seq}

\* the arguments of the call are valid: to_excel passes its check and has a
\* full header, to_dictionary asks for languages of the grid with as many
\* pseudonyms, to_html_table asks for a language of the grid or for none
ValidArguments ==
    CASE call.encoder \in {"to_excel", "Spreadsheet.to_excel"} ->
            /\ ExcelArgsValid
            /\ call.encoder = "to_excel" =>
                  Elements(HeaderKeys) \subseteq
                      DOMAIN call.args.variables_sheet_header
      [] call.encoder \in {"to_dictionary", "Spreadsheet.to_dictionary"} ->
            /\ ~PseudonymsDiffer
            /\ Elements(RequestedLanguages)
                  \subseteq Elements(cell_indices.languages)
      [] call.encoder = "to_html_table" ->
            call.args.language_for_description.some =>
                call.args.language_for_description.v
                    \in Elements(cell_indices.languages)
      [] OTHER -> TRUE

\* the cells of the grid have a text for the Excel dialect
GridHasExcelDialect == "excel" \in Elements(cell_indices.languages)

(* C14, as claimed: for every grid (also one with no rows or no columns,
   one with None values, one exported from an offset), an encoder that is
   called with valid arguments returns its artifact and never ends in an
   error. *)
C14_NeverEndsInError ==
    (Returned /\ ValidArguments
              /\ (WritesWorkbook => GridHasExcelDialect)) =>
        error = "none"

\* the variables a held document shows
ArtifactVariables ==
    IF result.kind = "dict" THEN Contents(result.variables) ELSE <<>>

(* C15, as claimed: the artifact is independent of the grid: a write to
   the 'variables' entry of the document to_dictionary has returned leaves
   the grid (cells, labels, variable registry) unchanged, and a later
   change of the registry leaves the variables of the document
   unchanged. *)
C15_ArtifactIndependentOfGrid ==
    [][/\ artifact_set_variable => UNCHANGED gridVars
       /\ grid_set_variable => ArtifactVariables' = ArtifactVariables]_vars

\* the number a text of decimal digits stands for
RECURSIVE ParseDigits(_)
ParseDigits(text) ==
    IF text = <<>> THEN 0
    ELSE 10 * ParseDigits(SubSeq(text, 1, Len(text) - 1))
         + (CHOOSE d \in 0..9 : Digit(d) = text[Len(text)])

\* the writes to a sheet at a position
SheetWritesAt(sheet, row, col) ==
    {k \in DOMAIN workbook.writes :
        /\ workbook.writes[k].sheet = sheet
        /\ workbook.writes[k].row = row
        /\ workbook.writes[k].col = col}

\* there is exactly one write at the position, and it writes data
WrittenOnce(sheet, row, col, data) ==
    /\ Cardinality(SheetWritesAt(sheet, row, col)) = 1
    /\ \A k \in SheetWritesAt(sheet, row, col) : workbook.writes[k].data = data

\* the worksheet coordinate (row, col) a reference '=<sheet>!$B$<n>'
\* designates: column B is column index 1, Excel row n is row index n - 1
DesignatedCell(reference, sheet) ==
    LET prefix == <<"=">> \o sheet \o <<"!", "$", "B", "$">>
    IN  IF Len(reference) > Len(prefix)
           /\ SubSeq(reference, 1, Len(prefix)) = prefix
        THEN <<ParseDigits(SubSeq(reference, Len(prefix) + 1, Len(reference)))
                 - 1, 1>>
        ELSE <<-1, -1>>

\* a to_excel call that has come to register the variables
VariablesRegistered ==
    /\ Returned
    /\ call.encoder = "to_excel"
    /\ ExcelArgsValid
    /\ Elements(HeaderKeys) \subseteq DOMAIN call.args.variables_sheet_header

\* the variables sheet: header in row 0, variable k in row k, named by a
\* reference to the cell of its value
VariablesSheetWritten ==
    LET sheet == call.args.variables_sheet_name.v
        header == call.args.variables_sheet_header
    IN  /\ workbook.sheets = <<call.args.sheet_name.v, sheet>>
        /\ \A c \in 0..2 :
              WrittenOnce(sheet, 0, c, Str(header[HeaderKeys[c + 1]]))
        /\ Len(workbook.names) = Len(variables_dict)
        /\ \A k \in DOMAIN variables_dict :
              /\ WrittenOnce(sheet, k, 0, Str(variables_dict[k].name))
              /\ WrittenOnce(sheet, k, 1, variables_dict[k].value)
              /\ WrittenOnce(sheet, k, 2, Str(variables_dict[k].description))
              /\ workbook.names[k].name = variables_dict[k].name
              /\ workbook.names[k].formula =
                    <<"=">> \o sheet \o <<"!", "$", "B", "$">>
                    \o IntToStr(k + 1)
              /\ DesignatedCell(workbook.names[k].formula, sheet) = <<k, 1>>

\* the variables as named constants of the workbook, and no variables sheet
VariablesNamedOnly ==
    /\ workbook.sheets = <<call.args.sheet_name.v>>
    /\ Len(workbook.names) = Len(variables_dict)
    /\ \A k \in DOMAIN variables_dict :
          /\ workbook.names[k].name = variables_dict[k].name
          /\ workbook.names[k].formula = PyStr(variables_dict[k].value)

(* C16: to_excel with a variables sheet name and a non-empty variable set
   writes the header name, value, description in row 0 of the variables
   sheet and the k-th variable in row k, its value in column 1, and names
   it by the reference '=<sheet>!$B$<k+1>', which designates the cell
   where its value was written; no two variables share a row. Without a
   variables sheet name each variable is a named constant of the workbook
   and there is no variables sheet; with no variables nothing is
   registered. *)
C16_VariablesSheetAndNames ==
    VariablesRegistered =>
        IF variables_dict = <<>>
        THEN workbook.names = <<>>
             /\ workbook.sheets = <<call.args.sheet_name.v>>
        ELSE IF call.args.variables_sheet_name.some
        THEN VariablesSheetWritten
        ELSE VariablesNamedOnly

C16_Witness ==
    /\ VariablesRegistered
    /\ error = "none"
    /\ call.args.variables_sheet_name = Some(<<"V", "a", "r", "s">>)
    /\ Len(variables_dict) = 2
    /\ Len(workbook.names) = 2
    /\ workbook.names[2].formula =
          <<"=", "V", "a", "r", "s", "!", "$", "B", "$", "3">>
    /\ Cardinality(SheetWritesAt(<<"V", "a", "r", "s">>, 2, 1)) = 1

\* the writes to the main worksheet
MainWrites ==
    {k \in DOMAIN workbook.writes :
        workbook.writes[k].sheet = call.args.sheet_name.v}

\* the cells of the exported grid that to_excel writes
WrittenCells == {p \in Positions : cells[p].value.k # "none"}

\* cell (i, j) is written once, at (i + shift, j + shift), by the method of
\* its type
DataWrittenShifted(shift) ==
    \A p \in WrittenCells :
        /\ WrittenOnce(call.args.sheet_name.v, p[1] + shift, p[2] + shift,
                       cells[p].value)
        /\ \A k \in SheetWritesAt(call.args.sheet_name.v,
                                  p[1] + shift, p[2] + shift) :
              workbook.writes[k].op =
                  (IF cells[p].cell_type = "value_only" THEN "write"
                   ELSE "write_formula")

\* row 0 holds the column labels and column 0 the row labels
LabelsWritten ==
    /\ \A j \in 0..(Cols - 1) :
          WrittenOnce(call.args.sheet_name.v, 0, j + 1,
                      Str(ExportedColumnLabel(j)))
    /\ \A i \in 0..(Rows - 1) :
          WrittenOnce(call.args.sheet_name.v, i + 1, 0,
                      Str(ExportedRowLabel(i)))

\* no coordinate of the main worksheet is written more than once
NoCoordinateWrittenTwice ==
    \A k, m \in MainWrites :
        k # m => <<workbook.writes[k].row, workbook.writes[k].col>>
                   # <<workbook.writes[m].row, workbook.writes[m].col>>

(* C17: in a to_excel call that returns, if the label-append flag is set
   the data cell (i, j) is written at (i+1, j+1), row 0 holds the column
   labels at (0, j+1) and column 0 the row labels at (i+1, 0), spaces
   replaced, no coordinate is written more than once and no data cell is
   in row 0 or column 0; if the flag is not set the data cell (i, j) is
   written at (i, j) and no label is written. *)
C17_LabelsShiftTheData ==
    (Returned /\ call.encoder = "to_excel" /\ error = "none") =>
        /\ NoCoordinateWrittenTwice
        /\ IF cell_indices.excel_append_labels
           THEN /\ DataWrittenShifted(1)
                /\ LabelsWritten
                /\ Cardinality(MainWrites)
                      = Cardinality(WrittenCells) + Rows + Cols
                /\ \A k \in MainWrites :
                      (workbook.writes[k].row = 0
                       \/ workbook.writes[k].col = 0)
                          => workbook.writes[k].format.kind
                                \in {"col_label", "row_label"}
           ELSE /\ DataWrittenShifted(0)
                /\ Cardinality(MainWrites) = Cardinality(WrittenCells)

C17_Witness ==
    /\ Returned
    /\ call.encoder = "to_excel"
    /\ error = "none"
    /\ cell_indices.excel_append_labels
    /\ shape = <<2, 2>>
    /\ export_offset = <<0, 1>>
    /\ call.args.spaces_replacement = <<"_">>
    /\ Cardinality(WrittenCells) = 4
    /\ Cardinality(MainWrites) = 8
    /\ WrittenOnce(call.args.sheet_name.v, 2, 2, cells[<<1, 1>>].value)

----------------------------------------------------------------------------
(* C18: which cells of the exported shape an artifact leaves out *)

\* what a None value becomes where the encoder does not leave the cell out
Rendered(value, replacement) ==
    IF value.k = "none" THEN replacement ELSE value

\* cell p is found in the artifact of the returned call, at its own place
CellAppears(p) ==
    LET i == p[1]
        j == p[2]
        value == cells[p].value
        a == call.args
    IN  CASE call.encoder = "to_2d_list" ->
               result.v[i + 1][j + 1] = value
          [] call.encoder = "to_string_of_values" ->
               Contains(result.v,
                        (IF j = 0 THEN <<"[">> ELSE <<",", " ">>)
                        \o PyStr(value)
                        \o (IF j = Cols - 1 THEN <<"]">> ELSE <<",", " ">>))
          [] call.encoder = "to_numpy" ->
               /\ p \in DOMAIN result.v.data
               /\ result.v.data[p] = IF value.k = "num" THEN Float(value.n)
                                     ELSE NaN
          [] call.encoder = "to_csv" ->
               IF CsvClean
               THEN SplitAt(SplitAt(result.v, a.line_terminator[1])[i + 2],
                            a.sep[1])[j + 2] = ValueText(value, a.na_rep)
               ELSE Contains(result.v,
                             a.sep \o ValueText(value, a.na_rep)
                             \o (IF j < Cols - 1 THEN a.sep ELSE <<>>))
          [] call.encoder = "to_markdown" ->
               SplitAt(SplitAt(result.v, "\n")[i + 3], " | ")[j + 2]
                  = ValueText(value, a.na_rep)
                    \o (IF j = Cols - 1 THEN <<" |">> ELSE <<>>)
          [] call.encoder = "to_html_table" ->
               Contains(result.v,
                        <<"<td>">>
                        \o Anchor(HtmlCellTitle(cells[p], a).title_attr)
                        \o ValueText(value, a.na_rep)
                        \o <<"</a>", "</td>">>)
          [] call.encoder = "to_dictionary" ->
               \E e \in DocEntries(result) :
                  /\ e[1] = ExportedRowLabel(i)
                  /\ e[2] = ExportedColumnLabel(j)
                  /\ e[3].value = Rendered(value, a.nan_replacement)
                  /\ e[3].description = cells[p].description
          [] call.encoder = "to_excel" ->
               \E k \in SheetWritesAt(a.sheet_name.v, i + ExcelLabelShift,
                                      j + ExcelLabelShift) :
                  workbook.writes[k].data = value
          [] call.encoder = "Spreadsheet.to_excel" ->
               \E k \in SheetWritesAt(a.sheet_name.v, i, j) :
                  workbook.writes[k].data = value
          [] call.encoder = "Spreadsheet.to_dictionary" ->
               \E e \in SheetEntries(result, a.by_row) :
                  /\ e[1] = cell_indices.rows_nicknames[i + 1]
                  /\ e[2] = cell_indices.columns_nicknames[j + 1]
                  /\ e[3].value = value

\* the one omission the claim allows
SkippingAllowed(p) ==
    /\ call.encoder = "to_dictionary"
    /\ call.args.skip_nan_cell
    /\ cells[p].value.k = "none"

\* the omissions the encoders make whatever the call says
AlwaysSkipped(p) ==
    /\ call.encoder \in {"to_excel", "Spreadsheet.to_excel",
                         "Spreadsheet.to_dictionary"}
    /\ cells[p].value.k = "none"

\* to_dictionary keys its entries by label: two cells under the same pair
\* of labels share one entry
LabelsTellCellsApart ==
    call.encoder = "to_dictionary" => ExportedLabelsDistinct

(* C18 as stated: in a call that ends without error, every cell of the
   exported shape appears in the artifact (a None value as the placeholder
   or passed through), except a None cell of to_dictionary called with
   skip_nan_cell. *)
C18_OmittedOnlyWhereAllowed ==
    (Returned /\ error = "none") =>
        \A p \in Positions : SkippingAllowed(p) \/ CellAppears(p)

(* C18 amended: in a call that ends without error, a cell of the exported
   shape is left out of the artifact exactly if its value is None and the
   encoder is to_dictionary called with skip_nan_cell, or to_excel, or
   Spreadsheet.to_excel, or Spreadsheet.to_dictionary; every other cell
   appears, a None value as na_rep, nan_replacement, NaN or itself;
   to_dictionary is covered where the exported labels of each axis are
   pairwise distinct. *)
C18_OmittedOnlyNoneCells ==
    (Returned /\ error = "none" /\ LabelsTellCellsApart) =>
        \A p \in Positions :
            IF SkippingAllowed(p) \/ AlwaysSkipped(p)
            THEN ~CellAppears(p)
            ELSE CellAppears(p)

C18_Witness ==
    /\ Returned
    /\ error = "none"
    /\ call.encoder = "to_dictionary"
    /\ ~call.args.skip_nan_cell
    /\ call.args.nan_replacement.k # "none"
    /\ shape = <<2, 2>>
    /\ ExportedLabelsDistinct
    /\ \E p \in Positions :
          /\ cells[p].value.k = "none"
          /\ CellAppears(p)
    /\ Cardinality(DocEntries(result)) = 4

----------------------------------------------------------------------------
(* C19: the order in which an encoder fetches the cells *)

\* the cell fetches of the call, in order
FetchSequence == SelectSeq(log, IsFetch)

\* columns outside, rows inside: primary i, secondary j is cell (j, i)
ColumnMajorFetches ==
    [k \in 1..(Rows * Cols) |-> Fetched((k - 1) % Rows, (k - 1) \div Rows)]

PrimaryAxisIsColumns ==
    /\ call.encoder \in {"to_dictionary", "Spreadsheet.to_dictionary"}
    /\ ~call.args.by_row

ExpectedFetches ==
    IF PrimaryAxisIsColumns THEN ColumnMajorFetches ELSE RowMajorFetches

(* C19: the cell fetches of an encoder call run over the primary axis in
   the outer loop and the secondary axis in the inner loop, both upwards:
   column by column for to_dictionary without by_row, row by row in every
   other case.  A call that ends without error fetches every cell of the
   exported shape exactly once in that order; a call that ends in an
   exception has fetched the cells up to that point in that order. *)
C19_FetchesInTraversalOrder ==
    Returned =>
        /\ IsPrefix(FetchSequence, ExpectedFetches)
        /\ error = "none" =>
              /\ FetchSequence = ExpectedFetches
              /\ \A p \in Positions :
                    Cardinality(LogPositions(LAMBDA ev : ev = Fetched(p[1], p[2])))
                        = 1

C19_Witness ==
    /\ Returned
    /\ error = "none"
    /\ call.encoder = "to_dictionary"
    /\ ~call.args.by_row
    /\ shape = <<2, 2>>
    /\ FetchSequence
          = <<Fetched(0, 0), Fetched(1, 0), Fetched(0, 1), Fetched(1, 1)>>

----------------------------------------------------------------------------
(* C20: iloc and loc of Spreadsheet *)

Accessed == pc = "accessed"

\* the position (row index, column index) of row nickname r and column
\* nickname c in the nickname lists
PositionOf(r, c) ==
    <<ListIndex(cell_indices.rows_nicknames, r).i,
      ListIndex(cell_indices.columns_nicknames, c).i>>

\* the position a call of iloc or loc is meant to address
Addressed ==
    IF call.args.by_integer THEN call.args.index
    ELSE PositionOf(call.args.index[1], call.args.index[2])

\* loc[r, c] reads the cell that iloc[i, j] reads
LocReadsWhatIlocReads ==
    \A p \in Positions :
        loc(cell_indices.rows_nicknames[p[1] + 1],
            cell_indices.columns_nicknames[p[2] + 1]) = iloc(p[1], p[2])

\* a read returns the addressed cell
ReadAddressed ==
    (Accessed /\ call.encoder = "Spreadsheet.__getitem__") =>
        /\ error = "none"
        /\ result.v = cells[Addressed]

\* a write puts the value into the addressed cell and into no other, and
\* both accessors read it back
WriteAddressed ==
    (pc = "idle" /\ Accessed' /\ call'.encoder = "Spreadsheet.__setitem__") =>
        /\ error' = "none"
        /\ cells'[Addressed'].value = SetValue
        /\ \A p \in Positions \ {Addressed'} : cells'[p] = cells[p]
        /\ LocReadsWhatIlocReads'

(* C20, as claimed: for every row nickname r at position i and every
   column nickname c at position j, loc[r, c] reads and writes the same
   cell as iloc[i, j]: a read through either accessor returns the cell at
   (i, j), a write through either sets that cell and no other, and the
   value is read back through the other accessor. *)
C20_LocAndIlocShareTheStore ==
    [][/\ IsSpreadsheet => LocReadsWhatIlocReads
       /\ ReadAddressed'
       /\ WriteAddressed]_vars

----------------------------------------------------------------------------
Next ==
    \/ to_2d_list
    \/ to_string_of_values
    \/ to_numpy
    \/ to_csv
    \/ to_markdown
    \/ to_html_table
    \/ to_dictionary
    \/ to_excel
    \/ Spreadsheet_to_excel
    \/ Spreadsheet_to_dictionary
    \/ Spreadsheet_getitem
    \/ Spreadsheet_setitem
    \/ artifact_set_variable
    \/ grid_set_variable
    \/ Return

Spec == Init /\ [][Next]_vars

====
